---- MODULE Spec2Model ----
(***************************************************************************)
(* A model of the sight-reading practice sheet generator (src/src/App.tsx). *)
(*                                                                         *)
(* Strings of the program are sequences of one-character strings,          *)
(* so that the regular expressions and Number() conversions of the source  *)
(* are computed, not assumed.  JavaScript numbers that can leave the       *)
(* integers are records [k, v]: k = "fin" with value v, k = "inf"          *)
(* (Infinity) or k = "nan" (NaN).                                          *)
(***************************************************************************)
EXTENDS Integers, Sequences, FiniteSets, TLC

VARIABLES
    tsInput,      \* parseTimeSignature: the argument string
    tsResult,     \* parseTimeSignature: the returned record
    tsDone,       \* parseTimeSignature: has returned
    pitchInput,   \* parsePitch and noteToMidi: the argument string
    pitchParsed,  \* parsePitch: the returned record
    pitchMidi,    \* noteToMidi: the returned height
    pitchDone,    \* parsePitch and noteToMidi: have returned
    \* React state of App (App.tsx 429-441)
    keySig, bars, tempo, timeSig, noteDensity, lowestPitch, highestPitch,
    score, previousScore, collection,
    storage,      \* localStorage[STORAGE_KEY]: the persisted library
    fresh,        \* source of crypto.randomUUID() and Date.now() values
    alertShown,   \* the message of the last handler's window.alert, or "none"
    pendingImport,\* a handleFileSelected call suspended at await file.text()
    fileSelected, \* the file input holds a selection (its value is not '')
    saveLog,      \* history: the Scores handleSave has stored, oldest first
    lastOp,       \* history: the handler that ran last
    download,     \* the last file handleDownload produced, and the Score it was given
    \* playback
    isPlaying,    \* the playing flag
    audioCtx,     \* audioCtxRef: the last context created (id 0: none) and whether
                  \* close() has been called on it
    ctxCount,     \* contexts created so far
    playTimerLive,\* the end-of-playback timeout is pending
    playCalls,    \* handlePlay calls suspended at await close(), oldest first
    tones,        \* the tones scheduled by the last call that reached the scheduling
    \* metronome
    isMetronomePlaying,
    metronomeInterval, \* metronomeIntervalRef: a timer id, or 0 for null
    timers,       \* the live interval timers, each with its id and period
    timerCount,   \* interval timers created so far
    \* normalizeImportedScore applied to one parsed value
    rawInput, normalized, normDone,
    \* a running generateMeasures call (App.tsx 178-299)
    pc,               \* "idle", "bar" (for-loop test), "fill" (while-loop test), "done"
    eighthsPerMeasure, lowestMidi, highestMidi, validOctaves,
    measures, measure, barIndex, eighthsLeft

pitchVars == <<pitchInput, pitchParsed, pitchMidi, pitchDone>>

\* the arguments and results of the pure functions applied on their own
parseVars == <<tsInput, tsResult, tsDone, pitchVars>>

paramVars == <<keySig, bars, tempo, timeSig, noteDensity, lowestPitch, highestPitch>>

appVars == <<score, previousScore, collection, storage, fresh, alertShown,
             pendingImport, fileSelected, saveLog, lastOp>>

normVars == <<rawInput, normalized, normDone>>

fileVars == <<download>>

playVars == <<isPlaying, audioCtx, ctxCount, playTimerLive, playCalls, tones>>

metroVars == <<isMetronomePlaying, metronomeInterval, timers, timerCount>>

genVars == <<pc, eighthsPerMeasure, lowestMidi, highestMidi, validOctaves,
             measures, measure, barIndex, eighthsLeft>>

vars == <<parseVars, paramVars, appVars, genVars, normVars, fileVars, playVars, metroVars>>

----------------------------------------------------------------------------
(* JavaScript numbers *)

Fin(n) == [k |-> "fin", v |-> n]
PosInf == [k |-> "inf", v |-> 0]
NaN == [k |-> "nan", v |-> 0]

\* x > 0 for a JavaScript number x (NaN compares false)
JsGtZero(x) == (x.k = "inf") \/ (x.k = "fin" /\ x.v > 0)

\* n <= x for an integer n and a JavaScript number x
JsLeq(n, x) == (x.k = "inf") \/ (x.k = "fin" /\ n <= x.v)

\* x - n for a JavaScript number x and an integer n
JsMinus(x, n) == IF x.k = "fin" THEN Fin(x.v - n) ELSE x

----------------------------------------------------------------------------
(* Strings as character sequences *)

Digits == {"0", "1", "2", "3", "4", "5", "6", "7", "8", "9"}

DigitVal(c) ==
    CASE c = "0" -> 0 [] c = "1" -> 1 [] c = "2" -> 2 [] c = "3" -> 3
      [] c = "4" -> 4 [] c = "5" -> 5 [] c = "6" -> 6 [] c = "7" -> 7
      [] c = "8" -> 8 [] c = "9" -> 9

\* the characters \s of a regular expression that the model's alphabet holds
WhiteSpace == {" "}

RECURSIVE DigitRun(_, _)
\* length of the run of digits of s that starts at position i (\d* from i)
DigitRun(s, i) ==
    IF i <= Len(s) /\ s[i] \in Digits THEN 1 + DigitRun(s, i + 1) ELSE 0

RECURSIVE SpaceRun(_, _)
\* length of the run of white space of s that starts at position i (\s* from i)
SpaceRun(s, i) ==
    IF i <= Len(s) /\ s[i] \in WhiteSpace THEN 1 + SpaceRun(s, i + 1) ELSE 0

RECURSIVE NumberOfDigits(_)
\* Number(ds) for a non-empty string of decimal digits
NumberOfDigits(ds) ==
    IF ds = <<>> THEN 0
    ELSE 10 * NumberOfDigits(SubSeq(ds, 1, Len(ds) - 1)) + DigitVal(ds[Len(ds)])

----------------------------------------------------------------------------
(* parseTimeSignature, App.tsx 125-135 *)

\* timeSig.match(/^(\d+)\s*\/\s*(\d+)$/): the two captured groups, or no match
TimeSigMatch(s) ==
    LET n1 == DigitRun(s, 1)
        ps == 1 + n1 + SpaceRun(s, 1 + n1)
        p2 == ps + 1 + SpaceRun(s, ps + 1)
        n2 == DigitRun(s, p2)
    IN  IF n1 >= 1 /\ ps <= Len(s) /\ s[ps] = "/" /\ n2 >= 1 /\ p2 + n2 = Len(s) + 1
        THEN [matched |-> TRUE, g1 |-> SubSeq(s, 1, n1), g2 |-> SubSeq(s, p2, Len(s))]
        ELSE [matched |-> FALSE, g1 |-> <<>>, g2 |-> <<>>]

\* Number(((numerator * 4) / denominator).toFixed(2)), in hundredths:
\* the quotient rounded to two decimals, the larger neighbour on a tie
QuarterBeatsHundredths(numerator, denominator) ==
    IF denominator = 0
    THEN (IF numerator = 0 THEN NaN ELSE PosInf)
    ELSE Fin((800 * numerator + denominator) \div (2 * denominator))

\* Math.round(q * 2) for q given in hundredths (ties go up)
RoundTwice(q) == IF q.k = "fin" THEN Fin((q.v + 25) \div 50) ELSE q

ParseWithoutDoubling(sig) ==
    LET m == TimeSigMatch(sig)
    IN  IF ~m.matched
        THEN [numerator |-> 4, denominator |-> 4,
              quarterBeatsPerMeasure |-> Fin(400), eighthsPerMeasure |-> Fin(8)]
        ELSE LET numerator == NumberOfDigits(m.g1)
                 denominator == NumberOfDigits(m.g2)
                 q == QuarterBeatsHundredths(numerator, denominator)
             IN  [numerator |-> numerator, denominator |-> denominator,
                  quarterBeatsPerMeasure |-> q,
                  eighthsPerMeasure |-> IF q.k = "fin" THEN Fin((q.v + 50) \div 100) ELSE q]

parseTimeSignature(sig) ==
    LET m == TimeSigMatch(sig)
    IN  IF ~m.matched
        THEN [numerator |-> 4, denominator |-> 4,
              quarterBeatsPerMeasure |-> Fin(400), eighthsPerMeasure |-> Fin(8)]
        ELSE LET numerator == NumberOfDigits(m.g1)
                 denominator == NumberOfDigits(m.g2)
                 q == QuarterBeatsHundredths(numerator, denominator)
             IN  [numerator |-> numerator, denominator |-> denominator,
                  quarterBeatsPerMeasure |-> q,
                  eighthsPerMeasure |-> RoundTwice(q)]

\* const timeSignatureOptions, App.tsx 80
timeSignatureOptions ==
    { <<"4", "/", "4">>, <<"3", "/", "4">>, <<"2", "/", "4">>, <<"6", "/", "8">>,
      <<"1", "2", "/", "8">>, <<"5", "/", "4">>, <<"7", "/", "8">> }

----------------------------------------------------------------------------
(* Notes, keys and pitch heights *)

\* const keyOptions, App.tsx 41-72
keyOptions ==
    { <<"C">>, <<"G">>, <<"D">>, <<"A">>, <<"E">>, <<"B">>, <<"F", "#">>, <<"C", "#">>, <<"F">>, <<"B", "b">>, <<"E", "b">>, <<"A", "b">>, <<"D", "b">>, <<"G", "b">>, <<"C", "b">>,
      <<"A", "m">>, <<"E", "m">>, <<"B", "m">>, <<"F", "#", "m">>, <<"C", "#", "m">>, <<"G", "#", "m">>, <<"D", "#", "m">>, <<"A", "#", "m">>, <<"D", "m">>, <<"G", "m">>, <<"C", "m">>, <<"F", "m">>,
      <<"B", "b", "m">>, <<"E", "b", "m">>, <<"A", "b", "m">> }

\* The key signature of a key: the number of sharps (positive) or flats (negative).
\* This is the key manager of the notation library, which the repository only calls.
KeySignature(key) ==
    CASE key \in {<<"C">>, <<"A", "m">>} -> 0
      [] key \in {<<"G">>, <<"E", "m">>} -> 1
      [] key \in {<<"D">>, <<"B", "m">>} -> 2
      [] key \in {<<"A">>, <<"F", "#", "m">>} -> 3
      [] key \in {<<"E">>, <<"C", "#", "m">>} -> 4
      [] key \in {<<"B">>, <<"G", "#", "m">>} -> 5
      [] key \in {<<"F", "#">>, <<"D", "#", "m">>} -> 6
      [] key \in {<<"C", "#">>, <<"A", "#", "m">>} -> 7
      [] key \in {<<"F">>, <<"D", "m">>} -> -1
      [] key \in {<<"B", "b">>, <<"G", "m">>} -> -2
      [] key \in {<<"E", "b">>, <<"C", "m">>} -> -3
      [] key \in {<<"A", "b">>, <<"F", "m">>} -> -4
      [] key \in {<<"D", "b">>, <<"B", "b", "m">>} -> -5
      [] key \in {<<"G", "b">>, <<"E", "b", "m">>} -> -6
      [] key \in {<<"C", "b">>, <<"A", "b", "m">>} -> -7

SharpOrder == <<"f", "c", "g", "d", "a", "e", "b">>
FlatOrder == <<"b", "e", "a", "d", "g", "c", "f">>

\* keyManager.selectNote(letter) for a natural letter: the letter with the accidental
\* the key gives it ({note, accidental}); accidental "null" for a natural
selectNote(key, letter) ==
    LET n == KeySignature(key)
        acc == IF n > 0 /\ \E i \in 1..n : SharpOrder[i] = letter THEN "#"
               ELSE IF n < 0 /\ \E i \in 1..(0 - n) : FlatOrder[i] = letter THEN "b"
               ELSE "null"
    IN  [note |-> IF acc = "null" THEN <<letter>> ELSE <<letter, acc>>, accidental |-> acc]

\* const baseNotes, App.tsx 188
baseNotes == <<"c", "d", "e", "f", "g", "a", "b">>

ToLowerCase(c) ==
    CASE c = "A" -> "a" [] c = "B" -> "b" [] c = "C" -> "c" [] c = "D" -> "d"
      [] c = "E" -> "e" [] c = "F" -> "f" [] c = "G" -> "g" [] OTHER -> c

\* const baseOffsets[letter] ?? 0, App.tsx 146-147 and 166-167
BaseOffset(letter) ==
    CASE letter = "c" -> 0 [] letter = "d" -> 2 [] letter = "e" -> 4 [] letter = "f" -> 5
      [] letter = "g" -> 7 [] letter = "a" -> 9 [] letter = "b" -> 11 [] OTHER -> 0

\* a mutation of AccidentalOffset: accidentals do not count
AccidentalIgnored(accidentals) == 0

\* the accidentalOffset chain, App.tsx 149-153 and 169-173
AccidentalOffset(accidentals) ==
    CASE accidentals = <<"#">> -> 1
      [] accidentals = <<"#", "#">> -> 2
      [] accidentals = <<"b">> -> -1
      [] accidentals = <<"b", "b">> -> -2
      [] OTHER -> 0

\* position of the first "/" of s at or after i, or Len(s) + 1
RECURSIVE SlashFrom(_, _)
SlashFrom(s, i) == IF i > Len(s) \/ s[i] = "/" THEN i ELSE SlashFrom(s, i + 1)

\* Number(str) for a string without sign, point or exponent; Number("") is 0
NumberOfString(str) ==
    IF DigitRun(str, 1) = Len(str) THEN Fin(NumberOfDigits(str)) ELSE NaN

\* noteToMidi, App.tsx 159-176
noteToMidi(noteKey) ==
    LET p == SlashFrom(noteKey, 1)
        rawNote == SubSeq(noteKey, 1, p - 1)
        q == SlashFrom(noteKey, p + 1)
        \* octaveStr is undefined when noteKey holds no "/": Number(undefined) is NaN
        octave == IF p > Len(noteKey) THEN NaN ELSE NumberOfString(SubSeq(noteKey, p + 1, q - 1))
    IN  IF rawNote = <<>> \/ octave.k = "nan" THEN 60
        ELSE (octave.v + 1) * 12 + BaseOffset(ToLowerCase(rawNote[1]))
               + AccidentalOffset(Tail(rawNote))

RECURSIVE AccidentalRun(_, _)
\* length of the run of [#b] (case-insensitive) of s that starts at position i
AccidentalRun(s, i) ==
    IF i <= Len(s) /\ s[i] \in {"#", "b", "B"} THEN 1 + AccidentalRun(s, i + 1) ELSE 0

\* parsePitch, App.tsx 137-157: [matched, midi] (matched FALSE for null)
parsePitch(pitch) ==
    LET a == AccidentalRun(pitch, 2)
        d == DigitRun(pitch, 2 + a)
    IN  IF /\ Len(pitch) >= 1
           /\ ToLowerCase(pitch[1]) \in {"a", "b", "c", "d", "e", "f", "g"}
           /\ d >= 1
           /\ 1 + a + d = Len(pitch)
        THEN [matched |-> TRUE,
              midi |-> (NumberOfDigits(SubSeq(pitch, 2 + a, Len(pitch))) + 1) * 12
                         + BaseOffset(ToLowerCase(pitch[1]))
                         + AccidentalOffset(SubSeq(pitch, 2, 1 + a))]
        ELSE [matched |-> FALSE, midi |-> 0]

DefaultLowestMidi == 48
DefaultHighestMidi == 84

\* lowestPitch ? parsePitch(lowestPitch)?.midi ?? 48 : 48, App.tsx 194-195
\* (an absent pitch is the empty string: both are falsy)
ResolveMidi(pitch, default) ==
    IF pitch = <<>> THEN default
    ELSE IF parsePitch(pitch).matched THEN parsePitch(pitch).midi ELSE default

OctaveOverlaps(oct, lowMidi, highMidi) ==
    (oct + 1) * 12 + 11 >= lowMidi /\ (oct + 1) * 12 <= highMidi

\* the validOctaves loop and its fallback, App.tsx 198-206
ValidOctaves(lowMidi, highMidi) ==
    LET Overlaps(oct) == OctaveOverlaps(oct, lowMidi, highMidi)
        found == SelectSeq(<<2, 3, 4, 5, 6, 7>>, Overlaps)
    IN  IF found = <<>> THEN <<4>> ELSE found

----------------------------------------------------------------------------
(* generateMeasures, App.tsx 178-299: one iteration of the measure-filling loop *)

\* const durationPool, App.tsx 74-78 (beats is not read by the generator)
durationPool ==
    << [duration |-> "q", eighths |-> 2],
       [duration |-> "8", eighths |-> 1],
       [duration |-> "h", eighths |-> 4] >>

Eighths(duration) ==
    CASE duration = "q" -> 2 [] duration = "8" -> 1 [] duration = "h" -> 4

\* Math.max(0, Math.min(1, safeDensity / 100)), in percent, App.tsx 189-190
\* (noteDensity is an integer here, so Number.isFinite holds and safeDensity is it)
DensityPercent(density) ==
    IF density < 0 THEN 0 ELSE IF density > 100 THEN 100 ELSE density

\* Math.max(0, Math.min(0.4, 0.4 - densityRatio * 0.35)), in 1/10000, App.tsx 191
RestChance(pct) ==
    LET c == 4000 - 35 * pct
    IN  IF c < 0 THEN 0 ELSE IF c > 4000 THEN 4000 ELSE c

EveryDurationAllowed(left) == durationPool

\* durationPool.filter((d) => d.eighths <= eighthsLeft), App.tsx 215
allowedDurations(left) ==
    LET Fits(d) == JsLeq(d.eighths, left)
    IN  SelectSeq(durationPool, Fits)

\* a mutation of Weight: no boost, whatever the density
WeightFlat(d, pct) == 200 * 200 * 200

\* the weight of one duration, App.tsx 227-232, times 200 * 200 * 200
Weight(d, pct) ==
    LET shorterBoost == IF d.eighths <= 1 THEN 200 + 4 * pct ELSE 200
        longerBoost == IF d.eighths >= 4 THEN 200 + 4 * (100 - pct) ELSE 200
        midBoost == IF d.eighths = 2 THEN 200 + pct ELSE 200
    IN  shorterBoost * longerBoost * midBoost

RECURSIVE SumTo(_, _)
SumTo(weights, i) == IF i = 0 THEN 0 ELSE SumTo(weights, i - 1) + weights[i]

RECURSIVE ChoiceFrom(_, _, _, _)
\* the for loop of weightedChoice from index i; r = u / 10 * total
ChoiceFrom(items, weights, u, i) ==
    IF i > Len(items) THEN items[Len(items)]
    ELSE IF u * SumTo(weights, Len(weights)) <= 10 * SumTo(weights, i) THEN items[i]
    ELSE ChoiceFrom(items, weights, u, i + 1)

\* weightedChoice, App.tsx 114-123, for Math.random() = u / 10
weightedChoice(items, weights, u) == ChoiceFrom(items, weights, u, 1)

\* `${selection.note}/${octave}` for a one-digit octave
NoteKey(note, octave) ==
    note \o <<"/", CHOOSE c \in Digits : DigitVal(c) = octave>>

InRange(midi, lowMidi, highMidi) == midi >= lowMidi /\ midi <= highMidi

CandidateMidi(key, letter, octave) == noteToMidi(NoteKey(selectNote(key, letter).note, octave))

MaxAttempts == 50

RECURSIVE RetryLoop(_, _, _)
\* the retry loop, App.tsx 243-255, when randomChoice returns draw.octave and
\* draw.letter on every attempt; inRange is the test of line 250 for that draw
RetryLoop(inRange, draw, attempts) ==
    IF attempts >= MaxAttempts
    THEN [noteGenerated |-> FALSE, octave |-> draw.octave, letter |-> draw.letter]
    ELSE IF inRange
         THEN [noteGenerated |-> TRUE, octave |-> draw.octave, letter |-> draw.letter]
         ELSE RetryLoop(inRange, draw, attempts + 1)

\* a mutation of FallbackScan: the last resort without the scan
ScanSkipped(key, octaves, lowMidi, highMidi) ==
    [octave |-> octaves[(Len(octaves) \div 2) + 1], letter |-> baseNotes[1]]

\* the exhaustive scan and its last resort, App.tsx 258-281
FallbackScan(key, octaves, lowMidi, highMidi) ==
    LET hits == { h \in (1..Len(octaves)) \X (1..Len(baseNotes)) :
                    InRange(CandidateMidi(key, baseNotes[h[2]], octaves[h[1]]),
                            lowMidi, highMidi) }
        Rank(h) == (h[1] - 1) * Len(baseNotes) + h[2]
    IN  IF hits = {}
        THEN [octave |-> octaves[(Len(octaves) \div 2) + 1], letter |-> baseNotes[1]]
        ELSE LET first == CHOOSE h \in hits : \A g \in hits : Rank(h) <= Rank(g)
             IN  [octave |-> octaves[first[1]], letter |-> baseNotes[first[2]]]

\* the pitch of one event, App.tsx 236-281; scan is FallbackScan of the call's
\* key, octaves and range, which no draw changes
PickNote(key, lowMidi, highMidi, draw, scan) ==
    LET tried == RetryLoop(InRange(CandidateMidi(key, draw.letter, draw.octave),
                                   lowMidi, highMidi), draw, 0)
    IN  IF tried.noteGenerated
        THEN [octave |-> tried.octave, letter |-> tried.letter]
        ELSE scan

\* the duration of one event, App.tsx 227-234, for Math.random() = u / 10
PickDuration(density, left, u) ==
    LET pct == DensityPercent(density)
        allowed == allowedDurations(left)
        weights == [i \in 1..Len(allowed) |-> Weight(allowed[i], pct)]
    IN  weightedChoice(allowed, weights, u)

\* Math.random() < restChance for Math.random() = v / 10, App.tsx 283
InsertRest(density, v) == v * 1000 < RestChance(DensityPercent(density))

\* the event pushed by one iteration, App.tsx 285-290
NoteEvent(key, picked, choice, insertRest) ==
    LET selection == selectNote(key, picked.letter)
    IN  [key |-> NoteKey(selection.note, picked.octave),
         accidental |-> selection.accidental,
         duration |-> choice.duration,
         isRest |-> insertRest]

\* the rest forced when no duration fits, App.tsx 217-225
ForcedRest == [key |-> <<"b", "/", "4">>, accidental |-> "undefined",
               duration |-> "8", isRest |-> TRUE]

----------------------------------------------------------------------------
(* Scores *)

\* score === null, as a record of the shape of GeneratedScore (App.tsx 26-37)
NullScore ==
    [id |-> <<>>, key |-> <<>>, bars |-> 0, tempo |-> 0, timeSig |-> <<>>,
     noteDensity |-> 0, lowestPitch |-> <<>>, highestPitch |-> <<>>,
     measures |-> <<>>, createdAt |-> 0]

----------------------------------------------------------------------------
(* Parsed JSON values, as normalizeImportedScore reads them *)

\* a scalar: t is its kind, n its number (booleans as 1 and 0), s its characters
JUndefined == [t |-> "undefined", n |-> NaN, s |-> <<>>]
JNull == [t |-> "null", n |-> NaN, s |-> <<>>]
JBool(b) == [t |-> "boolean", n |-> Fin(IF b THEN 1 ELSE 0), s |-> <<>>]
JNum(x) == [t |-> "number", n |-> x, s |-> <<>>]
JStr(chars) == [t |-> "string", n |-> NaN, s |-> chars]
\* {} and [] read as scalars
JObject == [t |-> "object", n |-> NaN, s |-> <<>>]
JArray == [t |-> "array", n |-> NaN, s |-> <<>>]

\* !x is false
Truthy(x) ==
    CASE x.t \in {"undefined", "null"} -> FALSE
      [] x.t = "boolean" -> x.n = Fin(1)
      [] x.t = "number" -> x.n.k = "inf" \/ (x.n.k = "fin" /\ x.n.v # 0)
      [] x.t = "string" -> x.s # <<>>
      [] OTHER -> TRUE

\* typeof x === 'string'
IsString(x) == x.t = "string"

\* typeof x === 'object' for a value that is not null
IsObject(x) == x.t \in {"object", "array"}

\* Number(x)
ToNumber(x) ==
    CASE x.t = "undefined" -> NaN
      [] x.t = "null" -> Fin(0)
      [] x.t \in {"boolean", "number"} -> x.n
      [] x.t = "string" -> IF x.s = <<>> THEN Fin(0) ELSE NumberOfString(x.s)
      [] x.t = "array" -> Fin(0)
      [] OTHER -> NaN

\* Number.isFinite(x) for a number x
IsFinite(x) == x.k = "fin"

\* a snapshot: t is the kind of the value, the other fields its properties
RawValue(kind) ==
    [t |-> kind, id |-> JUndefined, key |-> JUndefined, bars |-> JUndefined,
     tempo |-> JUndefined, timeSig |-> JUndefined, noteDensity |-> JUndefined,
     lowestPitch |-> JUndefined, highestPitch |-> JUndefined,
     measures |-> [t |-> "undefined", items |-> <<>>], createdAt |-> JUndefined]

JNullValue == RawValue("null")

\* a property read from a value that has none
NoNote == [t |-> "undefined", key |-> JUndefined, accidental |-> JUndefined,
           duration |-> JUndefined, isRest |-> JUndefined]

\* a mutation of AccidentalOf: the accidental is not read
AccidentalDropped(x) == "null"

\* the accidental of an event, from n.accidental ?? null
AccidentalOf(x) ==
    CASE x.t \in {"undefined", "null"} -> "null"
      [] x.t = "string" /\ x.s = <<"#">> -> "#"
      [] x.t = "string" /\ x.s = <<"b">> -> "b"
      [] OTHER -> "other"

\* the duration of an event, for a duration found in durationPool
DurationOf(x) ==
    CHOOSE d \in {"q", "8", "h"} : x.s = <<d>>

\* duration is none of 'q', '8' and 'h', App.tsx 604-605
NoDuration(x) == ~(x.t = "string" /\ \E d \in {"q", "8", "h"} : x.s = <<d>>)

\* one note refused, App.tsx 602-607
NoteRefused(note) ==
    \/ ~IsObject(note)
    \/ NoDuration(note.duration)
    \/ (~Truthy(note.isRest) /\ (~Truthy(note.key) \/ ~IsString(note.key)))

\* the event pushed for one note, App.tsx 609-614
NormalizedNote(note) ==
    [key |-> IF note.key.t \in {"undefined", "null"} THEN <<"b", "/", "4">>
             ELSE note.key.s,
     accidental |-> AccidentalOf(note.accidental),
     duration |-> DurationOf(note.duration),
     isRest |-> Truthy(note.isRest)]

\* one measure refused, App.tsx 598-607
MeasureRefused(m) ==
    \/ m.t # "array"
    \/ \E j \in 1..Len(m.items) : NoteRefused(m.items[j])

\* normalizeImportedScore, App.tsx 581-633; uuid and now are the values
\* crypto.randomUUID() and Date.now() would return
normalizeImportedScore(raw, uuid, now) ==
    LET tempoNum == ToNumber(raw.tempo)
        densityNum == IF IsFinite(ToNumber(raw.noteDensity))
                      THEN ToNumber(raw.noteDensity).v ELSE 70
        lowestPitchStr == IF IsString(raw.lowestPitch) THEN raw.lowestPitch.s
                          ELSE <<"C", "4">>
        highestPitchStr == IF IsString(raw.highestPitch) THEN raw.highestPitch.s
                           ELSE <<"G", "5">>
        refused ==
            \/ ~IsObject(raw)
            \/ ~Truthy(raw.key) \/ ~IsString(raw.key)
            \/ ~Truthy(raw.timeSig) \/ ~IsString(raw.timeSig)
            \/ ~IsFinite(tempoNum)
            \/ raw.measures.t # "array"
            \/ \E i \in 1..Len(raw.measures.items) : MeasureRefused(raw.measures.items[i])
        normalizedMeasures ==
            [i \in 1..Len(raw.measures.items) |->
                [j \in 1..Len(raw.measures.items[i].items) |->
                    NormalizedNote(raw.measures.items[i].items[j])]]
        barsNum == IF IsFinite(ToNumber(raw.bars)) THEN ToNumber(raw.bars).v
                   ELSE IF Len(normalizedMeasures) # 0 THEN Len(normalizedMeasures) ELSE 1
    IN  IF refused THEN [ok |-> FALSE, score |-> NullScore]
        ELSE [ok |-> TRUE,
              score |->
                [id |-> IF Truthy(raw.id) THEN raw.id.s ELSE uuid,
                 key |-> raw.key.s,
                 bars |-> barsNum,
                 tempo |-> tempoNum.v,
                 timeSig |-> raw.timeSig.s,
                 noteDensity |-> densityNum,
                 lowestPitch |-> lowestPitchStr,
                 highestPitch |-> highestPitchStr,
                 measures |-> normalizedMeasures,
                 createdAt |-> IF Truthy(raw.createdAt) /\ IsFinite(ToNumber(raw.createdAt))
                               THEN ToNumber(raw.createdAt).v ELSE now]]

\* whether normalizeImportedScore(raw) reads crypto.randomUUID() or Date.now()
NormalizeDraws(raw) ==
    ~Truthy(raw.id) \/ ~(Truthy(raw.createdAt) /\ IsFinite(ToNumber(raw.createdAt)))

\* the value JSON.parse(JSON.stringify(s)) of a score s, App.tsx 424 and 676
NoteToJson(event) ==
    [t |-> "object",
     key |-> JStr(event.key),
     accidental |-> CASE event.accidental = "undefined" -> JUndefined
                      [] event.accidental = "null" -> JNull
                      [] OTHER -> JStr(<<event.accidental>>),
     duration |-> JStr(<<event.duration>>),
     isRest |-> JBool(event.isRest)]

ScoreToJson(s) ==
    [t |-> "object",
     id |-> JStr(s.id),
     key |-> JStr(s.key),
     bars |-> JNum(Fin(s.bars)),
     tempo |-> JNum(Fin(s.tempo)),
     timeSig |-> JStr(s.timeSig),
     noteDensity |-> JNum(Fin(s.noteDensity)),
     lowestPitch |-> JStr(s.lowestPitch),
     highestPitch |-> JStr(s.highestPitch),
     measures |-> [t |-> "array",
                   items |-> [i \in 1..Len(s.measures) |->
                                [t |-> "array",
                                 items |-> [j \in 1..Len(s.measures[i]) |->
                                              NoteToJson(s.measures[i][j])]]]],
     createdAt |-> JNum(Fin(s.createdAt))]

\* a mutation of persistCollection: what is stored is the empty list
PersistNothing(items) == <<>>

\* the text persistCollection stores, App.tsx 423-425, as the value it parses to
persistCollection(items) == [i \in 1..Len(items) |-> ScoreToJson(items[i])]

----------------------------------------------------------------------------
(* The state after construction *)

\* a file: whether JSON.parse accepts its text, and the value it parses to
NoFile == [json |-> FALSE, raw |-> JNullValue]

\* no handleFileSelected call is suspended
NoImport == [active |-> FALSE, file |-> NoFile, score |-> NullScore, collection |-> <<>>]

NoResult == [ok |-> FALSE, score |-> NullScore]

\* no tones have been scheduled
NoTones == [ctx |-> 0, tempo |-> 0, list |-> <<>>]

NoContext == [id |-> 0, closing |-> FALSE]

PlayIdle ==
    /\ isPlaying = FALSE
    /\ audioCtx = NoContext
    /\ ctxCount = 0
    /\ playTimerLive = FALSE
    /\ playCalls = <<>>
    /\ tones = NoTones

MetroIdle ==
    /\ isMetronomePlaying = FALSE
    /\ metronomeInterval = 0
    /\ timers = {}
    /\ timerCount = 0

\* handleDownload has not run
NoDownload == [made |-> FALSE, item |-> NullScore, file |-> NoFile]

\* the state of App after construction, App.tsx 429-441, with an empty library
ParamsDefault ==
    /\ keySig = <<"C">>
    /\ bars = 4
    /\ tempo = 100
    /\ timeSig = <<"4", "/", "4">>
    /\ noteDensity = 70
    /\ lowestPitch = <<"C", "4">>
    /\ highestPitch = <<"G", "5">>

NoTimeSig ==
    [numerator |-> 0, denominator |-> 0,
     quarterBeatsPerMeasure |-> NaN, eighthsPerMeasure |-> NaN]

NoPitch == [matched |-> FALSE, midi |-> 0]

PitchIdle ==
    pitchInput = <<>> /\ pitchParsed = NoPitch /\ pitchMidi = 0 /\ pitchDone = FALSE

ParseIdle == tsInput = <<>> /\ tsResult = NoTimeSig /\ tsDone = FALSE /\ PitchIdle

AppIdle ==
    /\ score = NullScore
    /\ previousScore = NullScore
    /\ collection = <<>>
    /\ storage = <<>>
    /\ fresh = 1
    /\ alertShown = "none"
    /\ pendingImport = NoImport
    /\ fileSelected = FALSE
    /\ saveLog = <<>>
    /\ lastOp = "none"
    /\ download = NoDownload
    /\ PlayIdle
    /\ MetroIdle

NormIdle == rawInput = JNullValue /\ normalized = NoResult /\ normDone = FALSE

GenIdle ==
    /\ pc = "idle"
    /\ eighthsPerMeasure = NaN
    /\ lowestMidi = 0
    /\ highestMidi = 0
    /\ validOctaves = <<>>
    /\ measures = <<>>
    /\ measure = <<>>
    /\ barIndex = 0
    /\ eighthsLeft = NaN

----------------------------------------------------------------------------
(* handleGenerate, App.tsx 493-509, with its call of generateMeasures          *)
(* (App.tsx 178-299) unfolded into the iterations of its loops                 *)

\* the locals computed before the loops, App.tsx 186-208
GenCall ==
    /\ pc = "idle"
    /\ eighthsPerMeasure' = parseTimeSignature(timeSig).eighthsPerMeasure
    /\ lowestMidi' = ResolveMidi(lowestPitch, DefaultLowestMidi)
    /\ highestMidi' = ResolveMidi(highestPitch, DefaultHighestMidi)
    /\ validOctaves' = ValidOctaves(ResolveMidi(lowestPitch, DefaultLowestMidi),
                                    ResolveMidi(highestPitch, DefaultHighestMidi))
    /\ measures' = <<>>
    /\ barIndex' = 0
    /\ pc' = "bar"
    /\ UNCHANGED <<measure, eighthsLeft, parseVars, paramVars, appVars, normVars, fileVars, playVars, metroVars>>

\* for (let i = 0; i < bars; ...): a new measure, App.tsx 210-212
GenBar ==
    /\ pc = "bar"
    /\ barIndex < bars
    /\ measure' = <<>>
    /\ eighthsLeft' = eighthsPerMeasure
    /\ pc' = "fill"
    /\ UNCHANGED <<eighthsPerMeasure, lowestMidi, highestMidi, validOctaves,
                   measures, barIndex, parseVars, paramVars, appVars, normVars, fileVars, playVars, metroVars>>

\* Math.random() in tenths, as far as the model draws it
RandomTenths == {0, 3, 5, 9}

\* Bounds on the random draws the model follows.  The duration draw is followed in
\* every measure.  Measures of at most GenFullDrawUnits units draw every (octave,
\* letter), longer ones the first octave and letter only; measures of at most
\* GenFullRestUnits units draw the rest flag, longer ones draw no rest.
GenFullDrawUnits == 4
GenFullRestUnits == 8

UnitsAtMost(n) == eighthsPerMeasure.k = "fin" /\ eighthsPerMeasure.v <= n

NoteDraws ==
    IF UnitsAtMost(GenFullDrawUnits)
    THEN [octave : {validOctaves[i] : i \in 1..Len(validOctaves)},
          letter : {baseNotes[i] : i \in 1..Len(baseNotes)}]
    ELSE {[octave |-> validOctaves[1], letter |-> baseNotes[1]]}

RestDraws == IF UnitsAtMost(GenFullRestUnits) THEN RandomTenths ELSE {9}

\* A loop over Infinity units never ends: the model follows it for this many events.
GenMaxUnboundedEvents == 3

\* one iteration of while (eighthsLeft > 0), App.tsx 214-293
GenFill ==
    /\ pc = "fill"
    /\ JsGtZero(eighthsLeft)
    /\ eighthsLeft.k = "inf" => Len(measure) < GenMaxUnboundedEvents
    /\ IF allowedDurations(eighthsLeft) = <<>>
       THEN /\ measure' = Append(measure, ForcedRest)
            /\ eighthsLeft' = Fin(0)
       ELSE LET scan == FallbackScan(keySig, validOctaves, lowestMidi, highestMidi)
            IN  \E note \in NoteDraws :
                  LET picked == PickNote(keySig, lowestMidi, highestMidi, note, scan)
                  IN  \E u \in RandomTenths :
                        LET choice == PickDuration(noteDensity, eighthsLeft, u)
                        IN  \E v \in RestDraws :
                              /\ measure' = Append(measure,
                                    NoteEvent(keySig, picked, choice,
                                              InsertRest(noteDensity, v)))
                              /\ eighthsLeft' = JsMinus(eighthsLeft, choice.eighths)
    /\ UNCHANGED <<pc, eighthsPerMeasure, lowestMidi, highestMidi, validOctaves,
                   measures, barIndex, parseVars, paramVars, appVars, normVars, fileVars, playVars, metroVars>>

\* measures.push(measure), App.tsx 295
GenBarEnd ==
    /\ pc = "fill"
    /\ ~JsGtZero(eighthsLeft)
    /\ measures' = Append(measures, measure)
    /\ barIndex' = barIndex + 1
    /\ pc' = "bar"
    /\ UNCHANGED <<eighthsPerMeasure, lowestMidi, highestMidi, validOctaves,
                   measure, eighthsLeft, parseVars, paramVars, appVars, normVars, fileVars, playVars, metroVars>>

RECURSIVE DecimalOf(_)
DecimalOf(n) ==
    IF n < 10 THEN <<CHOOSE c \in Digits : DigitVal(c) = n>>
    ELSE DecimalOf(n \div 10) \o <<CHOOSE c \in Digits : DigitVal(c) = n % 10>>

\* crypto.randomUUID(), App.tsx 497 and 622: the k-th identifier drawn; Date.now()
\* returns k at the same place
randomUUID(k) == <<"u">> \o DecimalOf(k)

\* the Score built from the returned measures, App.tsx 496-507
NewScore(id, ms, now) ==
    [id |-> id, key |-> keySig, bars |-> bars, tempo |-> tempo, timeSig |-> timeSig,
     noteDensity |-> noteDensity, lowestPitch |-> lowestPitch,
     highestPitch |-> highestPitch, measures |-> ms, createdAt |-> now]

\* return measures, and the rest of handleGenerate, App.tsx 298 and 494-508
GenReturn ==
    /\ pc = "bar"
    /\ ~(barIndex < bars)
    /\ previousScore' = score
    /\ score' = NewScore(randomUUID(fresh), measures, fresh)
    /\ fresh' = fresh + 1
    /\ alertShown' = "none"
    /\ lastOp' = "generate"
    /\ pc' = "done"
    /\ UNCHANGED <<collection, storage, pendingImport, fileSelected, saveLog, eighthsPerMeasure,
                   lowestMidi, highestMidi, validOctaves, measures, measure, barIndex,
                   eighthsLeft, parseVars, paramVars, normVars, fileVars, playVars, metroVars>>

----------------------------------------------------------------------------
(* Specification SpecGen: one handleGenerate, for bounded parameter settings *)

GenMaxBars == 2

C4Pitch == <<"C", "4">>

GenTimeSigs ==
    timeSignatureOptions \cup
    { <<"a", "b", "c">>, <<"0", "/", "0">>, <<"4", "/", "0">>, <<"0", "/", "4">>,
      <<"1", "/", "8">> }

GenKeys == {<<"C">>, <<"F">>, <<"G">>, <<"C", "#">>, <<"C", "b">>, <<"A", "m">>}

GenPitches ==
    { <<>>, <<"x">>, <<"C", "#", "#", "#", "4">>, <<"C", "1">>, <<"C", "2">>, <<"B", "3">>,
      <<"C", "4">>, <<"E", "b", "4">>, <<"F", "#", "4">>, <<"C", "5">>, <<"G", "5">>,
      <<"B", "7">> }

\* every time signature, one bar, one pitch
RhythmConfigs ==
    [key : {<<"C">>}, bars : {1}, timeSig : GenTimeSigs, density : {70},
     low : {C4Pitch}, high : {C4Pitch}]

\* every bar count the bars field can hold, in 1/4
BarsConfigs ==
    [key : {<<"C">>}, bars : (-1)..GenMaxBars, timeSig : {<<"1", "/", "4">>}, density : {70},
     low : {C4Pitch}, high : {C4Pitch}]

\* densities at and beyond the ends of the slider, in 3/4
DensityConfigs ==
    [key : {<<"C">>}, bars : {1}, timeSig : {<<"3", "/", "4">>}, density : {-20, 0, 100, 150},
     low : {C4Pitch}, high : {C4Pitch}]

\* keys and pitch ranges, on a one-unit measure and, for one-pitch ranges, in 2/4
PitchConfigs ==
    [key : GenKeys, bars : {1}, timeSig : {<<"1", "/", "8">>}, density : {70},
     low : GenPitches, high : GenPitches]
    \cup
    { [key |-> k, bars |-> 1, timeSig |-> <<"2", "/", "4">>, density |-> 70,
       low |-> p, high |-> p] : k \in GenKeys, p \in {<<"B", "3">>, C4Pitch} }

GenConfigs == RhythmConfigs \cup BarsConfigs \cup DensityConfigs \cup PitchConfigs

InitGen ==
    /\ \E cfg \in GenConfigs :
          /\ keySig = cfg.key
          /\ bars = cfg.bars
          /\ timeSig = cfg.timeSig
          /\ noteDensity = cfg.density
          /\ lowestPitch = cfg.low
          /\ highestPitch = cfg.high
    /\ tempo = 100
    /\ AppIdle
    /\ GenIdle
    /\ ParseIdle
    /\ NormIdle

NextGen == GenCall \/ GenBar \/ GenFill \/ GenBarEnd \/ GenReturn

SpecGen == InitGen /\ [][NextGen]_vars

----------------------------------------------------------------------------
(* Specification SpecParse: parseTimeSignature applied to every short string *)

ParseMaxLen == 4

ParseAlphabet == {"0", "1", "2", "3", "4", "5", "6", "7", "8", "/", " ", "a"}

ParseInputs ==
    UNION { [1..n -> ParseAlphabet] : n \in 0..ParseMaxLen } \cup { <<"a", "b", "c">> }

InitParse ==
    /\ tsInput \in ParseInputs
    /\ tsResult = NoTimeSig
    /\ tsDone = FALSE
    /\ PitchIdle
    /\ ParamsDefault
    /\ AppIdle
    /\ GenIdle
    /\ NormIdle

ParseCall ==
    /\ ~tsDone
    /\ tsResult' = parseTimeSignature(tsInput)
    /\ tsDone' = TRUE
    /\ UNCHANGED <<tsInput, pitchVars, paramVars, appVars, genVars, normVars, fileVars,
                   playVars, metroVars>>

NextParse == ParseCall

SpecParse == InitParse /\ [][NextParse]_vars

----------------------------------------------------------------------------
(* Specification SpecPitch: parsePitch and noteToMidi applied to bounded strings *)

\* the highest octave number written in an argument
PitchMaxOctave == 9

PitchLetters == {"A", "B", "C", "D", "E", "F", "G", "a", "b", "c", "d", "e", "f", "g"}

\* the five accidentals, and runs of [#b] (case-insensitive) that are none of them
PitchAccidentals ==
    { <<>>, <<"#">>, <<"#", "#">>, <<"b">>, <<"b", "b">>,
      <<"#", "#", "#">>, <<"#", "b">>, <<"B">> }

\* pitch names ("G#5"), note keys ("g#/5"), and strings that are neither
PitchInputs ==
    { <<l>> \o a \o DecimalOf(o) :
        l \in PitchLetters, a \in PitchAccidentals, o \in 0..PitchMaxOctave }
    \cup
    { <<l>> \o a \o <<"/">> \o DecimalOf(o) :
        l \in PitchLetters, a \in PitchAccidentals, o \in 0..PitchMaxOctave }
    \cup
    { <<>>, <<"x">>, <<"H", "4">>, <<"C">>, <<"4">>, <<"c", "/">>, <<"/", "4">>,
      <<"C", "4", " ">>, <<"c", "/", "x">> }

InitPitch ==
    /\ pitchInput \in PitchInputs
    /\ pitchParsed = NoPitch
    /\ pitchMidi = 0
    /\ pitchDone = FALSE
    /\ tsInput = <<>> /\ tsResult = NoTimeSig /\ tsDone = FALSE
    /\ ParamsDefault
    /\ AppIdle
    /\ GenIdle
    /\ NormIdle

PitchCall ==
    /\ ~pitchDone
    /\ pitchParsed' = parsePitch(pitchInput)
    /\ pitchMidi' = noteToMidi(pitchInput)
    /\ pitchDone' = TRUE
    /\ UNCHANGED <<pitchInput, tsInput, tsResult, tsDone, paramVars, appVars, genVars,
                   normVars, fileVars, playVars, metroVars>>

NextPitch == PitchCall

SpecPitch == InitPitch /\ [][NextPitch]_vars

----------------------------------------------------------------------------
(* The metronome, App.tsx 745-799 *)

\* (60 / beatsPerMinute) * 1000 as the fraction num / den, Infinity for tempo 0
IntervalMs(beatsPerMinute) ==
    IF beatsPerMinute = 0 THEN [k |-> "inf", num |-> 0, den |-> 0]
    ELSE [k |-> "fin", num |-> 60000, den |-> beatsPerMinute]

\* a mutation of ClearInterval: the timer keeps running
ClearNothing(live, id) == live

\* window.clearInterval(id)
ClearInterval(live, id) == { tm \in live : tm.id # id }

\* window.setInterval(callback, intervalMs), which returns the id timerCount + 1
SetInterval(live, intervalMs) ==
    live \cup {[id |-> timerCount + 1, intervalMs |-> intervalMs]}

\* the effect on [tempo], App.tsx 776-799, after a render in which the tempo has
\* become newTempo
TempoEffect(newTempo) ==
    IF newTempo # tempo /\ isMetronomePlaying /\ metronomeInterval # 0
    THEN /\ timers' = SetInterval(ClearInterval(timers, metronomeInterval),
                                    IntervalMs(newTempo))
         /\ metronomeInterval' = timerCount + 1
         /\ timerCount' = timerCount + 1
         /\ UNCHANGED isMetronomePlaying
    ELSE UNCHANGED metroVars

\* handleMetronomeToggle, App.tsx 745-773. playMetronomeClick (719-743) awaits
\* nothing, so the await at 759 resumes in the microtasks of the same click, before
\* any other handler can run: the handler is one step.
HandleMetronomeToggle ==
    /\ IF isMetronomePlaying
       THEN /\ timers' = IF metronomeInterval # 0
                         THEN ClearInterval(timers, metronomeInterval) ELSE timers
            /\ metronomeInterval' = 0
            /\ isMetronomePlaying' = FALSE
            /\ UNCHANGED timerCount
       ELSE /\ timers' = SetInterval(timers, IntervalMs(tempo))
            /\ metronomeInterval' = timerCount + 1
            /\ timerCount' = timerCount + 1
            /\ isMetronomePlaying' = TRUE
    /\ alertShown' = "none"
    /\ lastOp' = "metronome"
    /\ UNCHANGED <<score, previousScore, collection, storage, fresh, pendingImport,
                   fileSelected, saveLog, paramVars, parseVars, genVars, normVars,
                   fileVars, playVars>>

----------------------------------------------------------------------------
(* Playback, App.tsx 511-544 *)

\* durationToBeats, App.tsx 99-103, in half beats
HalfBeats(duration) ==
    CASE duration = "q" -> 2
      [] duration = "8" -> 1
      [] duration = "h" -> 4

\* Times on the axis of a new context are counted from context.currentTime in units
\* of 1 / tempo milliseconds: a beat lasts 60000 units, the lead-in 100 * tempo.
LeadIn(beatsPerMinute) == 100 * beatsPerMinute

\* beats * secondsPerBeat
DurationOn(duration) == HalfBeats(duration) * 30000

\* score.measures.forEach((measure) => measure.forEach(...)): the events in order
RECURSIVE Events(_)
Events(ms) == IF ms = <<>> THEN <<>> ELSE Head(ms) \o Events(Tail(ms))

\* a mutation of ToneFor: rests sound too
ToneForAll(note, cursor) ==
    <<[key |-> note.key, start |-> cursor, duration |-> DurationOn(note.duration)]>>

\* if (!note.isRest) scheduleTone(context, cursor, durationSec, freq), App.tsx 526-529
ToneFor(note, cursor) ==
    IF ~note.isRest
    THEN <<[key |-> note.key, start |-> cursor, duration |-> DurationOn(note.duration)]>>
    ELSE <<>>

RECURSIVE ScheduleFrom(_, _, _)
\* the two forEach loops from the i-th event, App.tsx 523-533
ScheduleFrom(events, i, cursor) ==
    IF i > Len(events) THEN <<>>
    ELSE ToneFor(events[i], cursor)
         \o ScheduleFrom(events, i + 1, cursor + DurationOn(events[i].duration))

\* With tempo 0 secondsPerBeat is Infinity, and the first scheduleTone is handed a
\* time that is not finite: the AudioParam call throws and handlePlay ends there.
ScheduleThrows(s) ==
    /\ s.tempo = 0
    /\ \E i \in 1..Len(Events(s.measures)) : ~Events(s.measures)[i].isRest

\* a mutation of Schedule: no end-of-playback timeout is set
ScheduleWithoutTimer(s) ==
    /\ ctxCount' = ctxCount + 1
    /\ audioCtx' = [id |-> ctxCount + 1, closing |-> FALSE]
    /\ tones' = [ctx |-> ctxCount + 1, tempo |-> s.tempo,
                 list |-> ScheduleFrom(Events(s.measures), 1, LeadIn(s.tempo))]
    /\ isPlaying' = TRUE
    /\ UNCHANGED playTimerLive

\* handlePlay from new AudioCtx() on, App.tsx 517-543, for the Score s it captured
Schedule(s) ==
    /\ ctxCount' = ctxCount + 1
    /\ audioCtx' = [id |-> ctxCount + 1, closing |-> FALSE]
    /\ IF ScheduleThrows(s)
       THEN /\ tones' = [ctx |-> ctxCount + 1, tempo |-> s.tempo, list |-> <<>>]
            /\ UNCHANGED <<isPlaying, playTimerLive>>
       ELSE /\ tones' = [ctx |-> ctxCount + 1, tempo |-> s.tempo,
                         list |-> ScheduleFrom(Events(s.measures), 1, LeadIn(s.tempo))]
            /\ isPlaying' = TRUE
            /\ playTimerLive' = TRUE

\* audioCtxRef.current.close(): the promise stays pending until the context is
\* closed; on a context that close() was already called on, it is rejected at once
\* (InvalidStateError) or stays pending too, depending on the browser
CloseOutcomes(ctx) == IF ctx.closing THEN {"pending", "rejected"} ELSE {"pending"}

\* handlePlay up to await audioCtxRef.current.close(), App.tsx 511-516; without a
\* context it runs to its end
HandlePlay ==
    /\ score # NullScore
    /\ ~isPlaying
    /\ IF audioCtx.id = 0
       THEN Schedule(score) /\ UNCHANGED playCalls
       ELSE \E outcome \in CloseOutcomes(audioCtx) :
              IF outcome = "rejected"
              THEN UNCHANGED playVars
              ELSE /\ audioCtx' = [audioCtx EXCEPT !.closing = TRUE]
                   /\ playCalls' = Append(playCalls, [score |-> score])
                   /\ UNCHANGED <<isPlaying, ctxCount, playTimerLive, tones>>
    /\ alertShown' = "none"
    /\ lastOp' = "play"
    /\ UNCHANGED <<score, previousScore, collection, storage, fresh, pendingImport,
                   fileSelected, saveLog, paramVars, parseVars, genVars, normVars,
                   fileVars, metroVars>>

\* the oldest suspended handlePlay call resumes after its await, App.tsx 517-543
PlayResume ==
    /\ playCalls # <<>>
    /\ Schedule(Head(playCalls).score)
    /\ playCalls' = Tail(playCalls)
    /\ lastOp' = "playResume"
    /\ UNCHANGED <<score, previousScore, collection, storage, fresh, alertShown,
                   pendingImport, fileSelected, saveLog, paramVars, parseVars, genVars,
                   normVars, fileVars, metroVars>>

\* the end-of-playback callback, App.tsx 541-543
PlayTimeout ==
    /\ playTimerLive
    /\ isPlaying' = FALSE
    /\ playTimerLive' = FALSE
    /\ lastOp' = "playEnd"
    /\ UNCHANGED <<audioCtx, ctxCount, playCalls, tones,
                   score, previousScore, collection, storage, fresh, alertShown,
                   pendingImport, fileSelected, saveLog, paramVars, parseVars, genVars,
                   normVars, fileVars, metroVars>>

----------------------------------------------------------------------------
(* The handlers of App, each as one step *)

RECURSIVE FillMeasure(_, _, _, _, _, _, _, _, _)
\* the while loop of generateMeasures, App.tsx 214-293, from the k-th draw of the
\* random stream rnd; a draw is the duration draw u, the rest draw v, and the octave
\* (as an index o) and letter every randomChoice of the retry loop returns
FillMeasure(key, octaves, lowMidi, highMidi, density, scan, left, rnd, k) ==
    IF ~JsGtZero(left) THEN <<>>
    ELSE IF allowedDurations(left) = <<>> THEN <<ForcedRest>>
    ELSE LET d == rnd[(k % Len(rnd)) + 1]
             note == [octave |-> octaves[(d.o % Len(octaves)) + 1], letter |-> d.letter]
             picked == PickNote(key, lowMidi, highMidi, note, scan)
             choice == PickDuration(density, left, d.u)
         IN  <<NoteEvent(key, picked, choice, InsertRest(density, d.v))>>
             \o FillMeasure(key, octaves, lowMidi, highMidi, density, scan,
                            JsMinus(left, choice.eighths), rnd, k + 1)

\* generateMeasures, App.tsx 178-299, for a finite number of units per measure
generateMeasures(key, barCount, sig, density, low, high, rnd) ==
    LET units == parseTimeSignature(sig).eighthsPerMeasure
        lowMidi == ResolveMidi(low, DefaultLowestMidi)
        highMidi == ResolveMidi(high, DefaultHighestMidi)
        octaves == ValidOctaves(lowMidi, highMidi)
        scan == FallbackScan(key, octaves, lowMidi, highMidi)
    IN  [i \in 1..barCount |->
            FillMeasure(key, octaves, lowMidi, highMidi, density, scan, units, rnd, i - 1)]

\* the call of generateMeasures returns
GenerateReturns == parseTimeSignature(timeSig).eighthsPerMeasure.k # "inf"

\* handleGenerate, App.tsx 493-509, with the random stream rnd
HandleGenerate(rnd) ==
    /\ GenerateReturns
    /\ previousScore' = score
    /\ score' = NewScore(randomUUID(fresh),
                         generateMeasures(keySig, bars, timeSig, noteDensity,
                                          lowestPitch, highestPitch, rnd),
                         fresh)
    /\ fresh' = fresh + 1
    /\ alertShown' = "none"
    /\ lastOp' = "generate"
    /\ UNCHANGED <<collection, storage, pendingImport, fileSelected, saveLog,
                   paramVars, parseVars, genVars, normVars, fileVars, playVars, metroVars>>

LibraryLimit == 30

\* a mutation of Slice: nothing is cut off
SliceNothing(items, n) == items

\* items.slice(0, n)
Slice(items, n) == SubSeq(items, 1, IF Len(items) < n THEN Len(items) ELSE n)

\* a mutation of HasId: no identifier is ever found
NeverHasId(items, id) == FALSE

\* collection.some((item) => item.id === id)
HasId(items, id) == \E i \in 1..Len(items) : items[i].id = id

\* [item, ...items].slice(0, 30), App.tsx 552 and 663
Stored(item, items) == Slice(<<item>> \o items, LibraryLimit)

\* handleSave, App.tsx 546-555
HandleSave ==
    /\ score # NullScore
    /\ IF HasId(collection, score.id)
       THEN /\ alertShown' = "duplicate"
            /\ UNCHANGED <<collection, storage, saveLog>>
       ELSE /\ collection' = Stored(score, collection)
            /\ storage' = persistCollection(Stored(score, collection))
            /\ saveLog' = Append(saveLog, score)
            /\ alertShown' = "none"
    /\ lastOp' = "save"
    /\ UNCHANGED <<score, previousScore, fresh, pendingImport, fileSelected,
                   paramVars, parseVars, genVars, normVars, fileVars, playVars, metroVars>>

\* a mutation of ParamsFrom: setTempo is not called
ParamsButTempo(s) ==
    /\ keySig' = s.key
    /\ bars' = s.bars
    /\ tempo' = tempo
    /\ timeSig' = s.timeSig
    /\ noteDensity' = s.noteDensity
    /\ lowestPitch' = s.lowestPitch
    /\ highestPitch' = s.highestPitch

\* the setters called with the fields of a score, App.tsx 562-568, 654-660, 709-715
ParamsFrom(s) ==
    /\ keySig' = s.key
    /\ bars' = s.bars
    /\ tempo' = s.tempo
    /\ timeSig' = s.timeSig
    /\ noteDensity' = s.noteDensity
    /\ lowestPitch' = s.lowestPitch
    /\ highestPitch' = s.highestPitch

\* handleLoad, App.tsx 557-570, for the i-th entry of the list
HandleLoad(i) ==
    /\ i \in 1..Len(collection)
    /\ LET found == collection[CHOOSE j \in 1..Len(collection) :
                                 /\ collection[j].id = collection[i].id
                                 /\ \A h \in 1..(j - 1) : collection[h].id # collection[i].id]
       IN  /\ previousScore' = score
           /\ score' = found
           /\ ParamsFrom(found)
    /\ alertShown' = "none"
    /\ lastOp' = "load"
    /\ UNCHANGED <<collection, storage, fresh, pendingImport, fileSelected, saveLog,
                   parseVars, genVars, normVars, fileVars, playVars>>
    /\ TempoEffect(tempo')

\* a mutation of WithoutId: nothing is filtered out
WithoutNothing(items, id) == items

\* collection.filter((item) => item.id !== id)
RECURSIVE WithoutId(_, _)
WithoutId(items, id) ==
    IF items = <<>> THEN <<>>
    ELSE IF Head(items).id = id THEN WithoutId(Tail(items), id)
    ELSE <<Head(items)>> \o WithoutId(Tail(items), id)

\* a mutation of ActiveAfterDelete: the active slot is never cleared
ActiveKept(active, id) == active

\* if (score?.id === id) setScore(null), App.tsx 576-578
ActiveAfterDelete(active, id) == IF active.id = id THEN NullScore ELSE active

\* handleDelete, App.tsx 572-579, for the i-th entry of the list
HandleDelete(i) ==
    /\ i \in 1..Len(collection)
    /\ collection' = WithoutId(collection, collection[i].id)
    /\ storage' = persistCollection(WithoutId(collection, collection[i].id))
    /\ score' = ActiveAfterDelete(score, collection[i].id)
    /\ alertShown' = "none"
    /\ lastOp' = "delete"
    /\ UNCHANGED <<previousScore, fresh, pendingImport, fileSelected, saveLog,
                   paramVars, parseVars, genVars, normVars, fileVars, playVars, metroVars>>

\* a mutation of HandleRevert: the previous Score stays the previous one
RevertWithoutSwap ==
    /\ previousScore # NullScore
    /\ score' = previousScore
    /\ ParamsFrom(previousScore)
    /\ alertShown' = "none"
    /\ lastOp' = "revert"
    /\ UNCHANGED <<previousScore, collection, storage, fresh, pendingImport, fileSelected,
                   saveLog, parseVars, genVars, normVars, fileVars, playVars>>
    /\ TempoEffect(tempo')

\* handleRevert, App.tsx 705-717
HandleRevert ==
    /\ previousScore # NullScore
    /\ score' = previousScore
    /\ ParamsFrom(previousScore)
    /\ previousScore' = score
    /\ alertShown' = "none"
    /\ lastOp' = "revert"
    /\ UNCHANGED <<collection, storage, fresh, pendingImport, fileSelected, saveLog,
                   parseVars, genVars, normVars, fileVars, playVars>>
    /\ TempoEffect(tempo')

\* the tempo field, App.tsx 922: setTempo(Number(e.target.value || 1)) for the digits
\* the field holds
SetTempo(text) ==
    /\ tempo' = IF text = <<>> THEN 1 ELSE NumberOfString(text).v
    /\ alertShown' = "none"
    /\ lastOp' = "edit"
    /\ UNCHANGED <<keySig, bars, timeSig, noteDensity, lowestPitch, highestPitch,
                   score, previousScore, collection, storage, fresh, pendingImport,
                   fileSelected, saveLog, parseVars, genVars, normVars, fileVars, playVars>>
    /\ TempoEffect(tempo')

\* the bars field, App.tsx 909: setBars(Number(e.target.value))
SetBars(text) ==
    /\ bars' = NumberOfString(text).v
    /\ alertShown' = "none"
    /\ lastOp' = "edit"
    /\ UNCHANGED <<keySig, tempo, timeSig, noteDensity, lowestPitch, highestPitch,
                   score, previousScore, collection, storage, fresh, pendingImport,
                   fileSelected, saveLog, parseVars, genVars, normVars, fileVars, playVars, metroVars>>

\* the key select, App.tsx 848: setKeySig(e.target.value)
SetKeySig(key) ==
    /\ key \in keyOptions
    /\ keySig' = key
    /\ alertShown' = "none"
    /\ lastOp' = "edit"
    /\ UNCHANGED <<bars, tempo, timeSig, noteDensity, lowestPitch, highestPitch,
                   score, previousScore, collection, storage, fresh, pendingImport,
                   fileSelected, saveLog, parseVars, genVars, normVars, fileVars, playVars, metroVars>>

\* the file handleDownload writes for a Score, App.tsx 674-685: its text is
\* JSON.stringify(item, null, 2)
ExportedFile(item) == [json |-> TRUE, raw |-> ScoreToJson(item)]

\* handleDownload, App.tsx 674-685, for the i-th entry of the list
HandleDownload(i) ==
    /\ i \in 1..Len(collection)
    /\ download' = [made |-> TRUE, item |-> collection[i],
                    file |-> ExportedFile(collection[i])]
    /\ alertShown' = "none"
    /\ lastOp' = "download"
    /\ UNCHANGED <<score, previousScore, collection, storage, fresh, pendingImport,
                   fileSelected, saveLog, paramVars, parseVars, genVars, normVars,
                   playVars, metroVars>>

\* handleFileSelected up to await file.text(), App.tsx 639-644: the rest of the call
\* reads score and collection as they are now
HandleFileSelected(file) ==
    /\ ~pendingImport.active
    /\ pendingImport' = [active |-> TRUE, file |-> file, score |-> score,
                         collection |-> collection]
    /\ fileSelected' = TRUE
    /\ alertShown' = "none"
    /\ lastOp' = "fileSelected"
    /\ UNCHANGED <<score, previousScore, collection, storage, fresh, saveLog,
                   paramVars, parseVars, genVars, normVars, fileVars, playVars, metroVars>>

\* a mutation of ImportAbort: the active Score is cleared before the alert
ImportAbortClearing(message) ==
    /\ alertShown' = message
    /\ score' = NullScore
    /\ UNCHANGED <<previousScore, collection, storage, fresh, paramVars>>

\* window.alert(message) and the end of the call, App.tsx 647-650 and 666-669
ImportAbort(message) ==
    /\ alertShown' = message
    /\ UNCHANGED <<score, previousScore, collection, storage, fresh, paramVars>>

\* handleFileSelected after await file.text(), App.tsx 644-671
ImportResolve ==
    /\ pendingImport.active
    /\ LET file == pendingImport.file
           result == normalizeImportedScore(file.raw, randomUUID(fresh), fresh)
           imported == result.score
           updated == Stored(imported, WithoutId(pendingImport.collection, imported.id))
       IN  IF ~file.json
           THEN ImportAbort("importFailed")
           ELSE IF ~result.ok
           THEN ImportAbort("importInvalid")
           ELSE /\ previousScore' = pendingImport.score
                /\ score' = imported
                /\ ParamsFrom(imported)
                /\ collection' = updated
                /\ storage' = persistCollection(updated)
                /\ fresh' = IF NormalizeDraws(file.raw) THEN fresh + 1 ELSE fresh
                /\ alertShown' = "none"
    /\ fileSelected' = FALSE
    /\ pendingImport' = NoImport
    /\ lastOp' = "import"
    /\ UNCHANGED <<saveLog, parseVars, genVars, normVars, fileVars, playVars>>
    /\ TempoEffect(tempo')

----------------------------------------------------------------------------
(* Specification SpecApp: generate, save, load, delete and revert *)

\* identifiers and timestamps drawn in one behaviour
AppMaxScores == 2

\* the random stream handleGenerate sees
AppStreams ==
    { <<[u |-> 0, v |-> 0, o |-> 1, letter |-> "f"],
        [u |-> 9, v |-> 9, o |-> 0, letter |-> "b"]>> }

TwoFour == <<"2", "/", "4">>

JNote(key, accidental, duration, isRest) ==
    [t |-> "object", key |-> key, accidental |-> accidental,
     duration |-> duration, isRest |-> isRest]

JList(items) == [t |-> "array", items |-> items]

\* a snapshot of one measure of G major in 2/4 holding a half note
AppSnapshot(id) ==
    [RawValue("object") EXCEPT
        !.id = id, !.key = JStr(<<"G">>), !.timeSig = JStr(TwoFour),
        !.tempo = JNum(Fin(90)),
        !.measures = JList(<<JList(<<JNote(JStr(<<"g", "/", "4">>), JNull,
                                           JStr(<<"h">>), JBool(FALSE))>>)>>)]

\* the files the user may select: text that is not JSON, a snapshot without tempo, a
\* snapshot whose note has no duration, a snapshot under the first identifier
\* handleGenerate draws, and a snapshot without identifier
AppFiles ==
    { NoFile,
      [json |-> TRUE, raw |-> [AppSnapshot(JUndefined) EXCEPT !.tempo = JUndefined]],
      [json |-> TRUE,
       raw |-> [AppSnapshot(JUndefined) EXCEPT
                   !.measures = JList(<<JList(<<JNote(JStr(<<"g", "/", "4">>), JNull,
                                                      JUndefined, JBool(FALSE))>>)>>)]],
      [json |-> TRUE, raw |-> AppSnapshot(JStr(randomUUID(1)))],
      [json |-> TRUE, raw |-> AppSnapshot(JUndefined)] }

InitApp ==
    /\ ParamsDefault
    /\ AppIdle
    /\ GenIdle
    /\ ParseIdle
    /\ NormIdle

AppGenerate == fresh <= AppMaxScores /\ \E rnd \in AppStreams : HandleGenerate(rnd)

\* a Score deleted from the library can be saved again: saves in one behaviour
AppMaxSaves == 2

AppSave ==
    /\ Len(saveLog) < AppMaxSaves \/ HasId(collection, score.id)
    /\ HandleSave

AppLoad == \E i \in 1..Len(collection) : HandleLoad(i)

AppDelete == \E i \in 1..Len(collection) : HandleDelete(i)

\* what the user types into the tempo field
AppTempoTexts == {<<"6", "0">>}

AppSetTempo == \E text \in AppTempoTexts : SetTempo(text)

NextApp ==
    \/ AppSetTempo
    \/ AppGenerate
    \/ AppSave
    \/ AppLoad
    \/ AppDelete
    \/ HandleRevert

SpecApp == InitApp /\ [][NextApp]_vars

----------------------------------------------------------------------------
(* Specification SpecFile: imports among generate and save *)

FileGenerate == fresh <= AppMaxScores /\ \E rnd \in AppStreams : HandleGenerate(rnd)

FileDownload == \E i \in 1..Len(collection) : HandleDownload(i)

\* the files the user may select: the fixed ones and the last download
FileSelected ==
    \E file \in AppFiles \cup {download.file} : HandleFileSelected(file)

FileImportResolve ==
    /\ (pendingImport.active /\ NormalizeDraws(pendingImport.file.raw))
          => fresh <= AppMaxScores
    /\ ImportResolve

NextFile ==
    \/ FileGenerate
    \/ HandleSave
    \/ FileDownload
    \/ FileSelected
    \/ FileImportResolve

SpecFile == InitApp /\ [][NextFile]_vars

----------------------------------------------------------------------------
(* Specification SpecLib: generate and save, beyond the limit of the library *)

\* Scores generated in one behaviour
LibMaxScores == 32

\* generated Scores that are replaced before they are saved
LibMaxSkipped == 1

LibStream == <<[u |-> 9, v |-> 9, o |-> 0, letter |-> "c"]>>

\* one bar in 2/4, set through the bars and time signature inputs
InitLib ==
    /\ keySig = <<"C">>
    /\ bars = 1
    /\ tempo = 100
    /\ timeSig = TwoFour
    /\ noteDensity = 70
    /\ lowestPitch = <<"C", "4">>
    /\ highestPitch = <<"G", "5">>
    /\ AppIdle
    /\ GenIdle
    /\ ParseIdle
    /\ NormIdle

LibGenerate ==
    /\ fresh <= LibMaxScores
    /\ (score = NullScore \/ HasId(collection, score.id)
          \/ (fresh - 1) - Len(saveLog) <= LibMaxSkipped)
    /\ HandleGenerate(LibStream)

NextLib == LibGenerate \/ HandleSave

SpecLib == InitLib /\ [][NextLib]_vars

----------------------------------------------------------------------------
(* Specification SpecPlay: playback among generate and tempo edits *)

\* Scores generated in one behaviour
PlayMaxScores == 2

\* audio contexts created or awaited in one behaviour
PlayMaxContexts == 3

PlayTempoTexts == {<<"0">>, <<"6", "0">>}

\* two bars in 2/4, set through the bars and time signature inputs
InitPlay ==
    /\ keySig = <<"C">>
    /\ bars = 2
    /\ tempo = 100
    /\ timeSig = TwoFour
    /\ noteDensity = 70
    /\ lowestPitch = <<"C", "4">>
    /\ highestPitch = <<"G", "5">>
    /\ AppIdle
    /\ GenIdle
    /\ ParseIdle
    /\ NormIdle

PlayGenerate == fresh <= PlayMaxScores /\ \E rnd \in AppStreams : HandleGenerate(rnd)

PlaySetTempo == \E text \in PlayTempoTexts : SetTempo(text)

PlayClick == ctxCount + Len(playCalls) < PlayMaxContexts /\ HandlePlay

NextPlay ==
    \/ PlayGenerate
    \/ PlaySetTempo
    \/ PlayClick
    \/ PlayResume
    \/ PlayTimeout

SpecPlay == InitPlay /\ [][NextPlay]_vars

----------------------------------------------------------------------------
(* Specification SpecMetro: the metronome among tempo edits and loads *)

\* interval timers created in one behaviour
MetroMaxTimers == 4

MetroTempoTexts == {<<>>, <<"0">>, <<"6", "0">>, <<"1", "2", "0">>}

MetroSetTempo ==
    /\ isMetronomePlaying => timerCount < MetroMaxTimers
    /\ \E text \in MetroTempoTexts : SetTempo(text)

MetroToggle ==
    /\ ~isMetronomePlaying => timerCount < MetroMaxTimers
    /\ HandleMetronomeToggle

MetroGenerate == fresh <= 2 /\ HandleGenerate(LibStream)

MetroRevert ==
    /\ isMetronomePlaying => timerCount < MetroMaxTimers
    /\ HandleRevert

NextMetro ==
    \/ MetroSetTempo
    \/ MetroToggle
    \/ MetroGenerate
    \/ MetroRevert

SpecMetro == InitLib /\ [][NextMetro]_vars

----------------------------------------------------------------------------
(* Specification SpecPlayLive: playback among every other operation, with the  *)
(* end-of-playback timer firing when it is due                                *)

\* Scores generated in one behaviour
LiveMaxScores == 1

LiveGenerate == fresh <= LiveMaxScores /\ \E rnd \in AppStreams : HandleGenerate(rnd)

\* a valid snapshot that carries its identifier and timestamp
LiveFiles ==
    { [json |-> TRUE,
       raw |-> [AppSnapshot(JStr(<<"f", "1">>)) EXCEPT !.createdAt = JNum(Fin(1))]] }

LiveSelected == \E file \in LiveFiles : HandleFileSelected(file)

NextPlayLive ==
    \/ LiveGenerate
    \/ PlayClick
    \/ PlayResume
    \/ PlayTimeout
    \/ AppLoad
    \/ AppDelete
    \/ HandleRevert
    \/ LiveSelected
    \/ ImportResolve

\* a pending timeout of window.setTimeout fires: the browser runs its callback once
\* the delay has passed
SpecPlayLive == InitPlay /\ [][NextPlayLive]_vars /\ WF_vars(PlayTimeout)

----------------------------------------------------------------------------
(* Specification SpecStore: every operation that reads or writes the library *)

\* Scores generated in one behaviour
StoreMaxScores == 1

\* Scores saved in one behaviour
StoreMaxSaves == 1

StoreGenerate == fresh <= StoreMaxScores /\ \E rnd \in AppStreams : HandleGenerate(rnd)

StoreSave ==
    /\ Len(saveLog) < StoreMaxSaves \/ HasId(collection, score.id)
    /\ HandleSave

\* a snapshot without tempo, and a valid snapshot under the identifier of the first
\* Score handleGenerate builds
StoreFiles ==
    { [json |-> TRUE, raw |-> [AppSnapshot(JUndefined) EXCEPT !.tempo = JUndefined]],
      [json |-> TRUE,
       raw |-> [AppSnapshot(JStr(randomUUID(1))) EXCEPT !.createdAt = JNum(Fin(1))]] }

StoreSelected == \E file \in StoreFiles : HandleFileSelected(file)

NextStore ==
    \/ StoreGenerate
    \/ StoreSave
    \/ AppLoad
    \/ AppDelete
    \/ HandleRevert
    \/ StoreSelected
    \/ ImportResolve

SpecStore == InitApp /\ [][NextStore]_vars

----------------------------------------------------------------------------
(* Specification SpecImport: normalizeImportedScore applied to bounded values *)

ImportKeys == {JUndefined, JNull, JStr(<<>>), JStr(<<"C">>), JNum(Fin(5))}

ImportTimeSigs == {JUndefined, JStr(<<>>), JStr(TwoFour), JBool(TRUE)}

ImportTempos ==
    {JUndefined, JNull, JNum(Fin(120)), JNum(Fin(0)), JNum(PosInf), JStr(<<>>),
     JStr(<<"9", "0">>), JStr(<<"a">>), JBool(TRUE), JArray, JObject}

ImportNotes ==
    { [NoNote EXCEPT !.t = "null"], [NoNote EXCEPT !.t = "number"],
      [NoNote EXCEPT !.t = "array"],
      JNote(JStr(<<"c", "#", "/", "4">>), JStr(<<"#">>), JStr(<<"q">>), JUndefined) }
    \cup
    [t : {"object"},
     key : {JUndefined, JNull, JStr(<<>>), JStr(<<"c", "/", "4">>), JNum(Fin(60))},
     accidental : {JUndefined},
     duration : {JUndefined, JStr(<<"q">>), JStr(<<"8">>), JStr(<<"h">>),
                 JStr(<<"w">>), JNum(Fin(8))},
     isRest : {JUndefined, JBool(TRUE), JBool(FALSE)}]

GoodNote == JNote(JStr(<<"c", "/", "4">>), JNull, JStr(<<"q">>), JBool(FALSE))

\* a note without duration and a sounding note without pitch
BadNotes ==
    { JNote(JStr(<<"c", "/", "4">>), JNull, JUndefined, JBool(FALSE)),
      JNote(JUndefined, JNull, JStr(<<"q">>), JBool(FALSE)) }

ImportMeasureValues ==
    { [t |-> "null", items |-> <<>>], [t |-> "object", items |-> <<>>],
      [t |-> "string", items |-> <<>>] }
    \cup { JList(<<>>) }
    \cup { JList(<<note>>) : note \in ImportNotes }
    \cup { JList(<<GoodNote, note>>) : note \in BadNotes \cup {GoodNote} }

ImportMeasureLists ==
    { [t |-> "undefined", items |-> <<>>], [t |-> "null", items |-> <<>>],
      [t |-> "object", items |-> <<>>], [t |-> "string", items |-> <<>>] }
    \cup { JList(<<>>) }
    \cup { JList(<<m>>) : m \in ImportMeasureValues }
    \cup { JList(<<JList(<<GoodNote>>), m>>)
             : m \in {[t |-> "null", items |-> <<>>], JList(<<>>)}
                     \cup {JList(<<note>>) : note \in BadNotes} }

ImportRaws ==
    { RawValue("null"), RawValue("undefined"), RawValue("number"), RawValue("string"),
      RawValue("array") }
    \cup
    { [RawValue("object") EXCEPT
          !.key = k, !.timeSig = ts, !.tempo = tp, !.measures = ms]
        : k \in ImportKeys, ts \in ImportTimeSigs, tp \in ImportTempos,
          ms \in ImportMeasureLists }
    \cup
    { [RawValue("object") EXCEPT
          !.key = JStr(<<"C">>), !.timeSig = JStr(TwoFour), !.tempo = JNum(Fin(60)),
          !.measures = JList(<<JList(<<GoodNote>>), JList(<<GoodNote>>)>>),
          !.bars = b, !.noteDensity = d, !.lowestPitch = p, !.createdAt = c, !.id = id]
        : b \in {JUndefined, JNum(Fin(7)), JStr(<<"x">>)},
          d \in {JNull, JNum(Fin(40)), JStr(<<"x">>)},
          p \in {JUndefined, JStr(<<"E", "4">>), JNum(Fin(4))},
          c \in {JUndefined, JNum(Fin(0)), JNum(Fin(12)), JStr(<<"x">>)},
          id \in {JUndefined, JStr(<<>>), JStr(<<"x">>)} }

InitImport ==
    /\ rawInput \in ImportRaws
    /\ normalized = NoResult
    /\ normDone = FALSE
    /\ ParamsDefault
    /\ AppIdle
    /\ GenIdle
    /\ ParseIdle

NormalizeCall ==
    /\ ~normDone
    /\ normalized' = normalizeImportedScore(rawInput, randomUUID(fresh), fresh)
    /\ normDone' = TRUE
    /\ UNCHANGED <<rawInput, parseVars, paramVars, appVars, genVars, fileVars, playVars, metroVars>>

NextImport == NormalizeCall

SpecImport == InitImport /\ [][NextImport]_vars

----------------------------------------------------------------------------
(* Claims about parseTimeSignature *)

UnitsOf(s) == tsInput = s /\ tsDone

\* C5 (as the specification states it): "6/8" parses to 12 units, "4/4" to 8,
\* "5/4" to 10 and the malformed "abc" to 8.
C5_AsStated ==
    /\ UnitsOf(<<"6", "/", "8">>) => tsResult.eighthsPerMeasure = Fin(12)
    /\ UnitsOf(<<"4", "/", "4">>) => tsResult.eighthsPerMeasure = Fin(8)
    /\ UnitsOf(<<"5", "/", "4">>) => tsResult.eighthsPerMeasure = Fin(10)
    /\ UnitsOf(<<"a", "b", "c">>) => tsResult.eighthsPerMeasure = Fin(8)

\* C5 (amended): "6/8" parses to 6 units-per-measure (six eighth notes), "4/4"
\* to 8, "5/4" to 10 and the malformed "abc" to 8.
C5_ParseExamples ==
    /\ UnitsOf(<<"6", "/", "8">>) => tsResult.eighthsPerMeasure = Fin(6)
    /\ UnitsOf(<<"4", "/", "4">>) => tsResult.eighthsPerMeasure = Fin(8)
    /\ UnitsOf(<<"5", "/", "4">>) => tsResult.eighthsPerMeasure = Fin(10)
    /\ UnitsOf(<<"a", "b", "c">>) => tsResult.eighthsPerMeasure = Fin(8)

C5_Witness == UnitsOf(<<"6", "/", "8">>) /\ tsResult.numerator = 6

\* the string has the form "<integer>/<integer>" (digits, optional blanks around the slash)
RECURSIVE AllDigits(_)
AllDigits(s) == s = <<>> \/ (Head(s) \in Digits /\ AllDigits(Tail(s)))

RECURSIVE Trimmed(_)
\* s without its leading white space
Trimmed(s) == IF s # <<>> /\ Head(s) \in WhiteSpace THEN Trimmed(Tail(s)) ELSE s

RECURSIVE TrimmedRight(_)
TrimmedRight(s) ==
    IF s # <<>> /\ s[Len(s)] \in WhiteSpace THEN TrimmedRight(SubSeq(s, 1, Len(s) - 1)) ELSE s

HasTimeSigForm(s) ==
    \E i \in 1..Len(s) :
        /\ s[i] = "/"
        /\ LET a == TrimmedRight(SubSeq(s, 1, i - 1))
               b == Trimmed(SubSeq(s, i + 1, Len(s)))
           IN  a # <<>> /\ b # <<>> /\ AllDigits(a) /\ AllDigits(b)
                 /\ a = SubSeq(s, 1, Len(a)) /\ b = SubSeq(s, Len(s) - Len(b) + 1, Len(s))

NumeratorOf(s) ==
    LET i == CHOOSE j \in 1..Len(s) : s[j] = "/"
    IN  NumberOfDigits(TrimmedRight(SubSeq(s, 1, i - 1)))

DenominatorOf(s) ==
    LET i == CHOOSE j \in 1..Len(s) : s[j] = "/"
    IN  NumberOfDigits(Trimmed(SubSeq(s, i + 1, Len(s))))

\* C6: for every input string parseTimeSignature returns (numerator, denominator,
\* units) with units = numerator*8/denominator rounded to the nearest integer when
\* the string is "<integer>/<integer>", and (4, 4, 8) for every other string.
C6_ParseContract ==
    tsDone =>
        IF HasTimeSigForm(tsInput)
        THEN LET n == NumeratorOf(tsInput)
                 d == DenominatorOf(tsInput)
             IN  /\ tsResult.numerator = n
                 /\ tsResult.denominator = d
                 /\ d # 0
                 /\ tsResult.eighthsPerMeasure = Fin((16 * n + d) \div (2 * d))
        ELSE /\ tsResult.numerator = 4
             /\ tsResult.denominator = 4
             /\ tsResult.eighthsPerMeasure = Fin(8)

----------------------------------------------------------------------------
(* Claims about generateMeasures and handleGenerate *)

RECURSIVE SumUnits(_)
\* the unit lengths (eighth = 1, quarter = 2, half = 4) of the events of measure m, summed
SumUnits(m) == IF m = <<>> THEN 0 ELSE Eighths(Head(m).duration) + SumUnits(Tail(m))

\* C1: for every supported time signature, every measure that generateMeasures returns
\* has event unit-lengths that sum exactly to the units-per-measure that
\* parseTimeSignature computes for that time signature.
C1_MeasuresFilled ==
    (timeSig \in timeSignatureOptions /\ pc \in {"bar", "done"}) =>
        \A i \in 1..Len(measures) :
            Fin(SumUnits(measures[i])) = parseTimeSignature(timeSig).eighthsPerMeasure

C1_Witness ==
    /\ pc = "done"
    /\ timeSig = <<"7", "/", "8">>
    /\ Len(score.measures) = 1
    /\ \E i, j \in 1..Len(score.measures[1]) :
          score.measures[1][i].duration = "h" /\ score.measures[1][j].duration = "8"

\* both pitch strings are given and parse
ExplicitRange == parsePitch(lowestPitch).matched /\ parsePitch(highestPitch).matched

\* some diatonic note of the active key, in any octave, has its height in the range
DiatonicNoteInRange ==
    \E i \in 1..Len(baseNotes), octave \in 0..9 :
        InRange(CandidateMidi(keySig, baseNotes[i], octave),
                parsePitch(lowestPitch).midi, parsePitch(highestPitch).midi)

\* C2: with an explicit pitch range, every non-rest event's pitch height lies within
\* [lowHeight, highHeight], unless no diatonic note of the active key has a height in
\* the range.
C2_PitchesInRange ==
    (pc = "done" /\ ExplicitRange /\ DiatonicNoteInRange) =>
        \A i \in 1..Len(score.measures) : \A j \in 1..Len(score.measures[i]) :
            ~score.measures[i][j].isRest =>
                InRange(noteToMidi(score.measures[i][j].key),
                        parsePitch(lowestPitch).midi, parsePitch(highestPitch).midi)

\* C3: generateMeasures terminates: every iteration of the measure-filling loop
\* strictly decreases a finite number of remaining units, so the loop reaches 0.
C3_FillingTerminates ==
    [][(pc = "fill" /\ pc' = "fill" /\ measure' # measure) =>
          /\ eighthsLeft.k = "fin"
          /\ eighthsLeft'.k = "fin"
          /\ eighthsLeft'.v < eighthsLeft.v]_vars

\* C4: generateMeasures returns exactly barCount measures for every barCount the bars
\* field can hold, and the Score built by handleGenerate records that barCount.
C4_BarCount ==
    pc = "done" => (Len(score.measures) = bars /\ score.bars = bars)

----------------------------------------------------------------------------
(* Claims about the library and about import *)

\* a Score with the identifier of the active Score is in the library
ActiveIsStored == \E i \in 1..Len(collection) : collection[i].id = score.id

\* C7: saving the active Score when a Score with the same identifier is already in
\* the library changes nothing: the library (contents, order and size), the persisted
\* blob and the active Score are the same after the save attempt.
C7_DuplicateSaveNoChange ==
    [][(lastOp' = "save" /\ score # NullScore /\ ActiveIsStored) =>
          /\ collection' = collection
          /\ storage' = storage
          /\ score' = score]_vars

C7_Witness ==
    /\ lastOp = "save"
    /\ alertShown = "duplicate"
    /\ Len(collection) >= 2
    /\ collection[2].id = score.id

\* the number of Scores the library holds after n saves
Held(n) == IF n < 30 THEN n ELSE 30

\* C8: after n saves of Scores with pairwise distinct identifiers from an empty
\* library, the library holds exactly the min(n, 30) most recently saved Scores,
\* most recent first; its size never exceeds 30.
C8_LibraryMostRecent ==
    /\ Len(collection) <= 30
    /\ Len(collection) = Held(Len(saveLog))
    /\ \A i \in 1..Len(collection) : collection[i] = saveLog[Len(saveLog) - i + 1]

C8_Witness ==
    /\ Len(saveLog) = 32
    /\ Len(collection) = 30
    /\ collection[30] = saveLog[3]

\* the import that is about to resolve is refused
ImportIsInvalid ==
    /\ pendingImport.active
    /\ \/ ~pendingImport.file.json
       \/ ~normalizeImportedScore(pendingImport.file.raw, randomUUID(fresh), fresh).ok

\* C9: a structurally invalid import performs no state change: the active Score, the
\* previous Score, the editable parameters, the library and the persisted blob are as
\* they were.
C9_InvalidImportNoChange ==
    [][(lastOp' = "import" /\ ImportIsInvalid) =>
          UNCHANGED <<score, previousScore, paramVars, collection, storage>>]_vars

C9_Witness ==
    /\ lastOp = "import"
    /\ alertShown = "importInvalid"
    /\ score # NullScore
    /\ previousScore # NullScore
    /\ collection # <<>>

NonEmptyString(x) == x.t = "string" /\ Len(x.s) > 0

FiniteNumber(x) == x.t = "number" /\ x.n.k = "fin"

\* an event of a snapshot: its duration is eighth, quarter or half, and unless it is
\* a rest its pitch is a non-empty string
WellFormedEvent(e) ==
    /\ e.t = "object"
    /\ e.duration.t = "string"
    /\ e.duration.s \in {<<"8">>, <<"q">>, <<"h">>}
    /\ (Truthy(e.isRest) \/ NonEmptyString(e.key))

\* every required field of a snapshot is present and well formed
WellFormed(raw) ==
    /\ raw.t = "object"
    /\ NonEmptyString(raw.key)
    /\ NonEmptyString(raw.timeSig)
    /\ FiniteNumber(raw.tempo)
    /\ raw.measures.t = "array"
    /\ \A i \in 1..Len(raw.measures.items) :
          /\ raw.measures.items[i].t = "array"
          /\ \A j \in 1..Len(raw.measures.items[i].items) :
                WellFormedEvent(raw.measures.items[i].items[j])

\* C10: import rejects a snapshot whenever a required field is absent or malformed,
\* and accepts every snapshot whose required fields are all well formed.
C10_ImportValidation ==
    normDone => (normalized.ok <=> WellFormed(rawInput))

\* the validation agrees with WellFormed on every snapshot whose tempo is a number
ValidationExceptTempo ==
    (normDone /\ rawInput.tempo.t = "number") => (normalized.ok <=> WellFormed(rawInput))

----------------------------------------------------------------------------
(* Claims about export, import, delete and load *)

\* the import that is about to resolve reads the file of the last download
ImportsDownload ==
    /\ pendingImport.active
    /\ download.made
    /\ pendingImport.file = download.file

\* C11: exporting a Score held in the library and importing the resulting file yields
\* a Score with the same key, time signature, tempo, bars, measures, note density and
\* pitch range, and with the exported identifier and timestamp.
C11_RoundTrip ==
    [][(lastOp' = "import" /\ ImportsDownload) =>
          /\ alertShown' = "none"
          /\ score'.key = download.item.key
          /\ score'.timeSig = download.item.timeSig
          /\ score'.tempo = download.item.tempo
          /\ score'.bars = download.item.bars
          /\ score'.measures = download.item.measures
          /\ score'.noteDensity = download.item.noteDensity
          /\ score'.lowestPitch = download.item.lowestPitch
          /\ score'.highestPitch = download.item.highestPitch
          /\ score'.id = download.item.id
          /\ score'.createdAt = download.item.createdAt]_vars

\* an exported Score with a sharpened note and a rest has been imported
C11_Witness ==
    /\ lastOp = "import"
    /\ download.made
    /\ score = download.item
    /\ \E i \in 1..Len(score.measures) : \E j \in 1..Len(score.measures[i]) :
          score.measures[i][j].accidental = "#"

\* the Score the import that is about to resolve accepts
ImportedScore ==
    normalizeImportedScore(pendingImport.file.raw, randomUUID(fresh), fresh).score

\* the entries of items whose identifier is not id, in their order
Others(items, id) ==
    LET Keep(x) == x.id # id IN SelectSeq(items, Keep)

\* the first 30 entries of items
First30(items) == SubSeq(items, 1, IF Len(items) < 30 THEN Len(items) ELSE 30)

\* every editable parameter has the value s records
ParamsAre(s) ==
    /\ keySig = s.key
    /\ bars = s.bars
    /\ tempo = s.tempo
    /\ timeSig = s.timeSig
    /\ noteDensity = s.noteDensity
    /\ lowestPitch = s.lowestPitch
    /\ highestPitch = s.highestPitch

\* after the step, every editable parameter has the value s records
ParamsBecome(s) ==
    /\ keySig' = s.key
    /\ bars' = s.bars
    /\ tempo' = s.tempo
    /\ timeSig' = s.timeSig
    /\ noteDensity' = s.noteDensity
    /\ lowestPitch' = s.lowestPitch
    /\ highestPitch' = s.highestPitch

\* C12: a successful import makes the imported Score the active Score, sets every
\* editable parameter to its values, and sets the library to the imported Score
\* followed by the library the import started from without the entries of the same
\* identifier, cut to 30 entries.
C12_ImportEffect ==
    [][(lastOp' = "import" /\ pendingImport.active /\ ~ImportIsInvalid) =>
          /\ score' = ImportedScore
          /\ ParamsBecome(ImportedScore)
          /\ collection' = First30(<<ImportedScore>>
                                    \o Others(pendingImport.collection, ImportedScore.id))]_vars

\* an import under an identifier that two other library entries surround
C12_Witness ==
    /\ lastOp = "import"
    /\ alertShown = "none"
    /\ Len(collection) >= 2
    /\ collection[1] = score
    /\ score.id = randomUUID(1)
    /\ ParamsAre(score)
    /\ score.key = <<"G">>

\* C13: Delete(id) removes exactly the library entries whose identifier is id and
\* keeps the others in their order; it clears the active slot if and only if the
\* active Score has identifier id, and otherwise leaves the active Score unchanged.
C13_DeleteEffect ==
    [][lastOp' = "delete" =>
          \E i \in 1..Len(collection) :
              /\ collection' = Others(collection, collection[i].id)
              /\ (score.id = collection[i].id) => score' = NullScore
              /\ (score.id # collection[i].id) => score' = score]_vars

\* the active Score has been deleted from a library that holds another one
C13_Witness ==
    /\ lastOp = "delete"
    /\ score = NullScore
    /\ previousScore # NullScore
    /\ Len(collection) >= 1

\* C14: Load(id) of a stored Score makes that Score the active Score and sets every
\* editable parameter to the stored Score's values, leaving the library and the
\* persisted blob unchanged.
C14_LoadEffect ==
    [][lastOp' = "load" =>
          /\ \E i \in 1..Len(collection) :
                /\ score' = collection[i]
                /\ ParamsBecome(collection[i])
          /\ collection' = collection
          /\ storage' = storage]_vars

\* a Score stored under another tempo than the one in the field has been loaded
C14_Witness ==
    /\ lastOp = "load"
    /\ score.tempo = 60
    /\ previousScore # NullScore
    /\ previousScore.tempo = 100
    /\ previousScore.id # score.id
    /\ ParamsAre(score)
    /\ \E i \in 1..Len(collection) : collection[i] = score

----------------------------------------------------------------------------
(* Claims about playback and the metronome *)

\* C15: from the moment one handlePlay call begins a playback until its
\* end-of-playback callback fires, no other handlePlay call schedules a tone, also
\* not a call that arrived while the first was suspended at the close of the
\* previous audio context.
C15_PlayingGuard ==
    [][(tones'.ctx # tones.ctx /\ tones'.list # <<>>) => ~playTimerLive]_vars

\* the half beats of the events before the i-th
RECURSIVE HalfBeatsBefore(_, _)
HalfBeatsBefore(events, i) ==
    IF i <= 1 THEN 0
    ELSE HalfBeatsBefore(events, i - 1) + HalfBeats(events[i - 1].duration)

\* the positions of the events that are not rests, in score order
RECURSIVE Sounding(_, _)
Sounding(events, i) ==
    IF i > Len(events) THEN <<>>
    ELSE (IF events[i].isRest THEN <<>> ELSE <<i>>) \o Sounding(events, i + 1)

\* the tones in list are those of the Score s: one per event that is not a rest, in
\* score order, each at the lead-in plus 60 / tempo seconds per beat before it
TonesOf(s, list) ==
    LET events == Events(s.measures)
        at == Sounding(events, 1)
    IN /\ Len(list) = Len(at)
       /\ \A k \in 1..Len(at) :
            /\ list[k].key = events[at[k]].key
            /\ list[k].start = 100 * s.tempo + 30000 * HalfBeatsBefore(events, at[k])
       /\ \A k \in 1..(Len(list) - 1) : list[k].start <= list[k + 1].start

\* C16: playback of a Score schedules exactly one tone per event that is not a rest
\* and none for a rest, in score order; each starts at the lead-in plus the beats of
\* all earlier events, rests included, times 60 / tempo seconds, so the start times
\* never decrease. A Score has a positive tempo.
C16_PlaybackSchedule ==
    [][(tones'.ctx # tones.ctx /\ tones'.tempo > 0)
         => TonesOf(IF playCalls' = playCalls THEN score ELSE Head(playCalls).score,
                    tones'.list)]_vars

\* a Score with a rest before a note has been played
C16_Witness ==
    /\ lastOp = "play"
    /\ tones.ctx > 0
    /\ tones.tempo > 0
    /\ Len(tones.list) >= 2
    /\ \E i \in 1..Len(Events(score.measures)) :
         /\ Events(score.measures)[i].isRest
         /\ \E j \in (i + 1)..Len(Events(score.measures)) :
              ~Events(score.measures)[j].isRest

\* 60000 / beatsPerMinute milliseconds
PeriodFor(beatsPerMinute) == [k |-> "fin", num |-> 60000, den |-> beatsPerMinute]

\* C17: after any sequence of metronome toggles and tempo changes at most one
\* interval timer of the metronome is live; none is live while the metronome is off;
\* while it is on, the period of the live timer is 60000 / tempo milliseconds for
\* the current (positive) tempo.
C17_OneMetronomeTimer ==
    /\ Cardinality(timers) <= 1
    /\ ~isMetronomePlaying => timers = {}
    /\ isMetronomePlaying =>
         /\ \E tm \in timers : tm.id = metronomeInterval
         /\ tempo > 0 => \A tm \in timers : tm.intervalMs = PeriodFor(tempo)

\* the tempo was changed while the metronome ran, after earlier timers were cancelled
C17_Witness ==
    /\ isMetronomePlaying
    /\ lastOp = "edit"
    /\ tempo = 120
    /\ timerCount >= 3
    /\ \E tm \in timers : tm.id = timerCount /\ tm.intervalMs.den = 120

----------------------------------------------------------------------------
(* Claims about pitch heights and the pitch range *)

\* the letter offsets {C:0, D:2, E:4, F:5, G:7, A:9, B:11}, for either case
LetterHeight(l) ==
    CASE l \in {"C", "c"} -> 0 [] l \in {"D", "d"} -> 2 [] l \in {"E", "e"} -> 4
      [] l \in {"F", "f"} -> 5 [] l \in {"G", "g"} -> 7 [] l \in {"A", "a"} -> 9
      [] l \in {"B", "b"} -> 11

\* the accidentals from double flat to double sharp, at their offsets -2 .. 2
AccidentalHeights ==
    { [run |-> <<"b", "b">>, by |-> -2], [run |-> <<"b">>, by |-> -1],
      [run |-> <<>>, by |-> 0],
      [run |-> <<"#">>, by |-> 1], [run |-> <<"#", "#">>, by |-> 2] }

\* C18: the pitch height of "C4" is 60, of "G#5" 80 and of "Bb3" 58; for every
\* well-formed pitch (letter, accidental from double flat to double sharp, octave)
\* it is (octave + 1) * 12 + letter offset + accidental offset, both for a pitch
\* name (parsePitch) and for a note key (noteToMidi).
C18_PitchHeight ==
    pitchDone =>
      /\ pitchInput = <<"C", "4">> => pitchParsed = [matched |-> TRUE, midi |-> 60]
      /\ pitchInput = <<"G", "#", "5">> => pitchParsed = [matched |-> TRUE, midi |-> 80]
      /\ pitchInput = <<"B", "b", "3">> => pitchParsed = [matched |-> TRUE, midi |-> 58]
      /\ \A l \in PitchLetters, a \in AccidentalHeights, o \in 0..PitchMaxOctave :
           LET height == (o + 1) * 12 + LetterHeight(l) + a.by
           IN /\ pitchInput = <<l>> \o a.run \o DecimalOf(o)
                   => pitchParsed = [matched |-> TRUE, midi |-> height]
              /\ pitchInput = <<l>> \o a.run \o <<"/">> \o DecimalOf(o)
                   => pitchMidi = height

\* the height of "G#5" has been computed
C18_Witness ==
    pitchDone /\ pitchInput = <<"G", "#", "5">> /\ pitchParsed.midi = 80

\* the octaves of 2..7 whose heights (o + 1) * 12 .. (o + 1) * 12 + 11 meet low .. high
Intersecting(low, high) ==
    { o \in 2..7 : ((o + 1) * 12 .. (o + 1) * 12 + 11) \cap (low .. high) # {} }

\* C19: the candidate octaves of the generator are exactly the octaves of 2..7 whose
\* heights intersect [lowHeight, highHeight]; when none does (the range is inverted
\* or lies outside those octaves) they are the single octave 4; never none.
C19_CandidateOctaves ==
    pc # "idle" =>
      /\ validOctaves # <<>>
      /\ { validOctaves[i] : i \in 1..Len(validOctaves) } =
           IF Intersecting(lowestMidi, highestMidi) = {} THEN {4}
           ELSE Intersecting(lowestMidi, highestMidi)

\* the same for a range that is not inverted (lowHeight <= highHeight)
C19_OrderedRange ==
    (pc # "idle" /\ lowestMidi <= highestMidi) =>
      /\ validOctaves # <<>>
      /\ { validOctaves[i] : i \in 1..Len(validOctaves) } =
           IF Intersecting(lowestMidi, highestMidi) = {} THEN {4}
           ELSE Intersecting(lowestMidi, highestMidi)

\* s names a pitch: a letter, one of the five accidentals, an octave number
WellFormedPitch(s) ==
    /\ Len(s) >= 2
    /\ s[1] \in PitchLetters
    /\ \E a \in AccidentalHeights :
         /\ 1 + Len(a.run) < Len(s)
         /\ SubSeq(s, 2, 1 + Len(a.run)) = a.run
         /\ AllDigits(SubSeq(s, 2 + Len(a.run), Len(s)))

\* C20: the resolution of the pitch range never fails: an absent or malformed
\* lowest pitch resolves to the height 48 and an absent or malformed highest pitch to
\* the height 84, each whatever the other bound is.
C20_RangeDefaults ==
    pc # "idle" =>
      /\ ~WellFormedPitch(lowestPitch) => lowestMidi = 48
      /\ ~WellFormedPitch(highestPitch) => highestMidi = 84

\* the same for the absent pitch and for a string that is no letter, run of # and b,
\* and digits
RangeDefaultsUnmatched ==
    pc # "idle" =>
      /\ lowestPitch \in {<<>>, <<"x">>} => lowestMidi = 48
      /\ highestPitch \in {<<>>, <<"x">>} => highestMidi = 84

----------------------------------------------------------------------------
(* Claims about operations that interleave, and about what the library holds *)

\* C21: an import whose file read is pending does not discard the changes made to
\* the library meanwhile: when a save or delete has completed between the selection
\* of the file and the resolution of its content, the library and the persisted blob
\* after the import are the imported Score before the library as it stood when the
\* content resolved.
C21_ImportKeepsChanges ==
    [][(lastOp' = "import" /\ alertShown' = "none"
          /\ pendingImport.active /\ pendingImport.collection # collection)
         => /\ collection' = First30(<<score'>> \o Others(collection, score'.id))
            /\ storage' = persistCollection(collection')]_vars

\* the k-th (candidate octave, letter) combination, octaves first, then c d e f g a b
Combination(k) ==
    [octave |-> validOctaves[((k - 1) \div 7) + 1], letter |-> baseNotes[((k - 1) % 7) + 1]]

CombinationInRange(k) ==
    LET c == Combination(k)
    IN  InRange(CandidateMidi(keySig, c.letter, c.octave), lowestMidi, highestMidi)

RECURSIVE FirstInRange(_)
\* the position of the first combination in range from the k-th on, or 0
FirstInRange(k) ==
    IF k > 7 * Len(validOctaves) THEN 0
    ELSE IF CombinationInRange(k) THEN k
    ELSE FirstInRange(k + 1)

\* C22: when some (candidate octave, diatonic letter) combination has its height in
\* [lowHeight, highHeight] under the active key, the pitch chosen for an event is in
\* range whatever is drawn, and after 50 missed retries the scan returns the first
\* combination in range (octaves ascending, then the letters c d e f g a b); when
\* none is in range the pitch is the letter c in the middle candidate octave.
C22_ScanFindsPitch ==
    [][(pc = "fill" /\ Len(measure') = Len(measure) + 1
          /\ allowedDurations(eighthsLeft) # <<>>)
         => LET e == measure'[Len(measure')]
                k == FirstInRange(1)
                scan == FallbackScan(keySig, validOctaves, lowestMidi, highestMidi)
            IN  IF k # 0
                THEN /\ InRange(noteToMidi(e.key), lowestMidi, highestMidi)
                     /\ scan = Combination(k)
                ELSE /\ scan = [octave |-> validOctaves[(Len(validOctaves) \div 2) + 1],
                                letter |-> "c"]
                     /\ e.key = NoteKey(selectNote(keySig, "c").note, scan.octave)]_vars

\* in C, with the range B3..B3, a measure was filled although every draw but b/3
\* misses the range: its events are at the one combination in range, the seventh
C22_Witness ==
    /\ pc = "done"
    /\ keySig = <<"C">>
    /\ lowestPitch = <<"B", "3">>
    /\ highestPitch = <<"B", "3">>
    /\ FirstInRange(1) = 7
    /\ Len(score.measures) = 1
    /\ \A j \in 1..Len(score.measures[1]) : score.measures[1][j].key = <<"b", "/", "3">>

\* the measure-filling loop has run one iteration
FillIteration == pc = "fill" /\ Len(measure') = Len(measure) + 1

\* C23: the forced-rest branch of the measure-filling loop is unreachable: at every
\* iteration, for every time-signature string, the remaining units are an integer
\* >= 1 and a duration of {1, 2, 4} fits, so the chosen duration never exceeds the
\* remaining units and the remaining units never become negative.
C23_ForcedRestUnreachable ==
    [][FillIteration =>
         /\ eighthsLeft.k = "fin" /\ eighthsLeft.v >= 1
         /\ allowedDurations(eighthsLeft) # <<>>
         /\ measure'[Len(measure')] # ForcedRest
         /\ eighthsLeft'.k = "fin"
         /\ eighthsLeft.v - eighthsLeft'.v \in {1, 2, 4}
         /\ eighthsLeft'.v >= 0]_vars

\* the same without the remaining units being an integer: a duration fits, the
\* forced rest is never pushed, and finite remaining units stay >= 0
NoForcedRest ==
    [][FillIteration =>
         /\ allowedDurations(eighthsLeft) # <<>>
         /\ measure'[Len(measure')] # ForcedRest
         /\ eighthsLeft'.k = "fin" => eighthsLeft'.v >= 0]_vars

\* the audio context of the tones of a playback that has not ended is not closed
NoToneCancelled ==
    (playTimerLive /\ tones.list # <<>>) => ~(audioCtx.id = tones.ctx /\ audioCtx.closing)

\* C24: whenever playback starts (isPlaying becomes true), isPlaying becomes false
\* again once the end-of-playback timer fires, whatever happens in between
\* (regeneration, load, delete, import, revert, further play clicks), and none of
\* those operations cancels a tone that is already scheduled.
C24_PlaybackEnds ==
    /\ isPlaying ~> ~isPlaying
    /\ []NoToneCancelled
    /\ [][lastOp' \notin {"play", "playResume"} => (tones' = tones /\ audioCtx' = audioCtx)]_vars

\* a playback has ended after a Score was generated and another loaded during it
C24_Witness ==
    /\ lastOp = "playEnd"
    /\ ~isPlaying
    /\ tones.list # <<>>
    /\ score # NullScore
    /\ previousScore # NullScore
    /\ collection # <<>>

\* C25: starting from a library whose identifiers are pairwise distinct, after any
\* sequence of generate, save, load, delete, revert and import operations the
\* library never holds two Scores with the same identifier.
C25_DistinctIds ==
    \A i, j \in 1..Len(collection) : collection[i].id = collection[j].id => i = j

\* a Score was imported under the identifier of a Score that had been saved
C25_Witness ==
    /\ lastOp = "import"
    /\ alertShown = "none"
    /\ collection[1].id = randomUUID(1)
    /\ collection[1].key = <<"G">>
    /\ \E i \in 1..Len(saveLog) : saveLog[i].id = randomUUID(1)

\* the step is a save, a delete or an import that has completed
LibraryWritten ==
    \/ lastOp' = "save" /\ alertShown' = "none"
    \/ lastOp' = "delete"
    \/ lastOp' = "import" /\ alertShown' = "none"

\* C26: after every completed save, delete or import the blob persisted under the
\* storage key is the serialization of exactly the library in memory (same Scores,
\* same order); the operations that do not change the library (generate, load,
\* revert, a rejected save, a rejected import) do not write the blob.
C26_BlobIsLibrary ==
    [][IF LibraryWritten
       THEN /\ Len(storage') = Len(collection')
            /\ \A i \in 1..Len(storage') : storage'[i] = ScoreToJson(collection'[i])
       ELSE storage' = storage /\ collection' = collection]_vars

\* an import has rewritten a blob that a save had written
C26_Witness ==
    /\ lastOp = "import"
    /\ alertShown = "none"
    /\ saveLog # <<>>
    /\ Len(storage) = 1
    /\ storage[1] = ScoreToJson(collection[1])
    /\ storage[1] # ScoreToJson(saveLog[1])

\* C27: every Score that can occupy the active slot or the library has a positive
\* tempo: no sequence of parameter edits, generate, load, revert and import
\* operations produces an active or stored Score whose tempo is zero or negative.
C27_PositiveTempo ==
    /\ score # NullScore => score.tempo > 0
    /\ \A i \in 1..Len(collection) : collection[i].tempo > 0

\* C28: every Score that can occupy the active slot or the library has a bars field
\* equal to the number of measures it holds, after any sequence of generate, load,
\* revert and import operations.
C28_BarsIsMeasureCount ==
    /\ score # NullScore => score.bars = Len(score.measures)
    /\ \A i \in 1..Len(collection) : collection[i].bars = Len(collection[i].measures)

\* C29: revert swaps the active and the previous Score: with both present, a revert
\* makes the previous Score active, sets the editable parameters to its values and
\* makes the former active Score the previous one, so that a second revert restores
\* the pair; revert never changes the library; without a previous Score it does
\* nothing.
C29_RevertSwaps ==
    [][lastOp' = "revert" =>
         /\ previousScore # NullScore
         /\ score # NullScore =>
              /\ score' = previousScore
              /\ previousScore' = score
              /\ ParamsBecome(previousScore)
         /\ (lastOp = "revert" /\ score # NullScore) =>
              (previousScore' = score /\ score' = previousScore)
         /\ collection' = collection
         /\ storage' = storage]_vars

\* two Scores were generated and the newer one is active again after reverts, with
\* a Score in the library
C29_Witness ==
    /\ lastOp = "revert"
    /\ score # NullScore
    /\ previousScore # NullScore
    /\ score.createdAt > previousScore.createdAt
    /\ ParamsAre(score)
    /\ collection # <<>>

----------------------------------------------------------------------------
(* Claims about the duration weights *)

\* the weights the duration draw uses at a density, in 1/200 (a weight of the
\* generator is 200 * 200 times this)
WeightAt(d, pct) == Weight(d, pct) \div (200 * 200)

TotalWeightAt(pct) ==
    WeightAt(durationPool[1], pct) + WeightAt(durationPool[2], pct)
        + WeightAt(durationPool[3], pct)

PoolEntry(eighths) == CHOOSE d \in {durationPool[i] : i \in 1..3} : d.eighths = eighths

\* the share of d in the total weight is smaller at density p than at density q
ShareGrows(d, p, q) ==
    WeightAt(d, p) * TotalWeightAt(q) < WeightAt(d, q) * TotalWeightAt(p)

AllThreeFit == Len(allowedDurations(eighthsLeft)) = 3

\* the weights of the call's density are those of the formulas, in 1/200, with
\* densityRatio in 1/200 being 2 * pct
WeightsAsStated ==
    LET pct == DensityPercent(noteDensity)
        ratio == 2 * pct
    IN  /\ pct \in 0..100
        /\ noteDensity \in 0..100 => pct = noteDensity
        /\ Weight(PoolEntry(1), pct) = 200 * 200 * (200 + 2 * ratio)
        /\ 2 * Weight(PoolEntry(2), pct) = 200 * 200 * (2 * 200 + ratio)
        /\ Weight(PoolEntry(4), pct) = 200 * 200 * (200 + 2 * (200 - ratio))

\* against every other density of the slider, the eighth's share is larger at the
\* larger density and the half's share is smaller
SharesMonotone ==
    LET pct == DensityPercent(noteDensity)
    IN  \A other \in 0..100 :
          /\ other > pct => /\ ShareGrows(PoolEntry(1), pct, other)
                            /\ ShareGrows(PoolEntry(4), other, pct)
          /\ other < pct => /\ ShareGrows(PoolEntry(1), other, pct)
                            /\ ShareGrows(PoolEntry(4), pct, other)

\* every value of Math.random() draws a duration that fits
DrawFits ==
    LET allowed == allowedDurations(eighthsLeft)
    IN  \A u \in RandomTenths :
          \E i \in 1..Len(allowed) : PickDuration(noteDensity, eighthsLeft, u) = allowed[i]

\* an iteration that draws appends an event of a fitting duration and takes its
\* length from the remaining units
DrawnDurationFits ==
    (FillIteration /\ allowedDurations(eighthsLeft) # <<>>) =>
        \E i \in 1..Len(allowedDurations(eighthsLeft)) :
            LET d == allowedDurations(eighthsLeft)[i]
            IN  /\ measure'[Len(measure')].duration = d.duration
                /\ eighthsLeft' = JsMinus(eighthsLeft, d.eighths)

\* C30: the duration weights are eighth = 1 + 2 * densityRatio, quarter =
\* 1 + 0.5 * densityRatio and half = 1 + 2 * (1 - densityRatio) for densityRatio =
\* clamp(density / 100, 0, 1); when all three durations fit, the eighth's share of
\* the total weight strictly increases with the density and the half's share
\* strictly decreases; and the weighted draw returns one of the fitting durations.
C30_WeightsFollowDensity ==
    /\ [](pc = "fill" => WeightsAsStated)
    /\ []((pc = "fill" /\ AllThreeFit) => SharesMonotone)
    /\ []((pc = "fill" /\ allowedDurations(eighthsLeft) # <<>>) => DrawFits)
    /\ [][DrawnDurationFits]_vars

\* at density 0 an eighth, the lightest duration there with the quarter, was drawn
\* and all three durations still fit
C30_Witness ==
    /\ pc = "fill"
    /\ noteDensity = 0
    /\ Len(measure) = 1
    /\ measure[1].duration = "8"
    /\ AllThreeFit

====
